---------------------------- MODULE Spec2Model ----------------------------
(***************************************************************************)
(* Createnko API: the HTTP gateway (api_server.py) and the services it     *)
(* sequences (trend analysis, script generation, generative video client,  *)
(* media cache, ad-library client).                                        *)
(*                                                                         *)
(* One action per request handler.  The outcome of every external call a   *)
(* handler makes (ad-library client, HTTP download, generative-model file  *)
(* store, cache writes) is an input of the action, drawn with \E at the    *)
(* point the handler makes the call.  `req`, `resp` and `calls` hold the   *)
(* last request, its response and the ordered external calls it made.      *)
(*                                                                         *)
(* A URL is a sequence of tokens; substring tests and strip() work on the  *)
(* tokens.                                                                 *)
(***************************************************************************)
EXTENDS Integers, Sequences, FiniteSets, TLC

VARIABLES
    scrapeKey,        \* the ad-library API key is configured
    environ,          \* os.environ['GEMINI_API_KEY'] (None when unset)
    argv,             \* sys.argv without the program name
    GEMINI_API_KEY,   \* gemini_service.GEMINI_API_KEY, the cached key
    cache,            \* media cache: stripped URL -> entry
    tempFiles,        \* temporary files present on local disk
    temp_file,        \* temp file created by the last operation (0: none)
    req,              \* the last request
    resp,             \* the response to it
    calls             \* external calls made while handling it, in order

vars == <<scrapeKey, environ, argv, GEMINI_API_KEY, cache, tempFiles,
          temp_file, req, resp, calls>>

None == "None"

(***************************************************************************)
(* Bounds                                                                  *)
(***************************************************************************)
MaxUrlLen == 2
MaxTemp == 2
MaxAdsPerPlatform == 3
MaxPolls == 6
MaxBatch == 3
MaxTextLen == 3
MaxTrendAds == 3
MaxBrandAds == 5
MaxSingleAdBrands == 10

(***************************************************************************)
(* Sequences helpers                                                       *)
(***************************************************************************)
Range(s) == {s[i] : i \in 1..Len(s)}

RECURSIVE Flatten(_)
Flatten(ss) == IF ss = <<>> THEN <<>> ELSE Head(ss) \o Flatten(Tail(ss))

RECURSIVE Filter(_, _)
Filter(s, keep) ==
    IF s = <<>> THEN <<>>
    ELSE (IF keep[Head(s)] THEN <<Head(s)>> ELSE <<>>) \o Filter(Tail(s), keep)

\* dict keys in insertion order: the first occurrence of each element
RECURSIVE Dedup(_)
Dedup(s) ==
    IF s = <<>> THEN <<>>
    ELSE LET front == Dedup(SubSeq(s, 1, Len(s) - 1))
             last == s[Len(s)]
         IN IF last \in Range(front) THEN front ELSE Append(front, last)

Min(a, b) == IF a < b THEN a ELSE b

SeqsUpTo(S, n) == UNION {[1..k -> S] : k \in 0..n}

(***************************************************************************)
(* URLs and ad records                                                     *)
(***************************************************************************)
UrlTokens == {"cdn/", "video", "VIDEO", ".mp4", ".MP4", ".jpg", ".JPEG", ".png"}

\* str.lower() on one token
LowerToken(t) ==
    CASE t = "VIDEO" -> "video"
      [] t = ".MP4" -> ".mp4"
      [] t = ".JPEG" -> ".jpeg"
      [] OTHER -> t

Lower(url) == [i \in 1..Len(url) |-> LowerToken(url[i])]

\* `needle in url` for a needle that is one of the tokens
Contains(url, needle) == \E i \in 1..Len(url) : url[i] = needle

EndsWith(url, suffix) == Len(url) > 0 /\ url[Len(url)] = suffix

MediaTypes == {"video", "VIDEO", "IMAGE", ""}

Ad(id, page, mtype, url) ==
    [ad_id |-> id, page_name |-> page, media_type |-> mtype, media_url |-> url]

IsVideoAdContainsVideoOnly(ad) ==
    LET media_url == ad.media_url
        media_type == ad.media_type
    IN /\ media_url # <<>>
       /\ (media_type = "video" \/ Contains(Lower(media_url), "video"))
       /\ ~(\/ Contains(Lower(media_url), ".jpg")
            \/ Contains(Lower(media_url), ".jpeg")
            \/ Contains(Lower(media_url), ".png"))

\* api_server.py:726-733, the test the filter loop applies to one ad
IsVideoAd(ad) ==
    LET media_url == ad.media_url
        media_type == ad.media_type
    IN /\ media_url # <<>>
       /\ (\/ media_type = "video"
           \/ Contains(Lower(media_url), ".mp4")
           \/ Contains(Lower(media_url), "video"))
       /\ ~(\/ Contains(Lower(media_url), ".jpg")
            \/ Contains(Lower(media_url), ".jpeg")
            \/ Contains(Lower(media_url), ".png"))

FilterVideoAdsKeepAll(all_ads) ==
    Filter(all_ads, [ad \in Range(all_ads) |-> ad.media_url # <<>>])

\* api_server.py:725-733
FilterVideoAds(all_ads) ==
    Filter(all_ads, [ad \in Range(all_ads) |-> IsVideoAd(ad)])

(***************************************************************************)
(* Exceptions and responses                                                *)
(***************************************************************************)
Exc(type, status_code, detail, credits_remaining, topup_url, retry_after) ==
    [type |-> type, status_code |-> status_code, detail |-> detail,
     credits_remaining |-> credits_remaining, topup_url |-> topup_url,
     retry_after |-> retry_after]

ExcOk == Exc("ok", 0, None, None, None, None)

\* scrapecreators_service.CreditExhaustedException / RateLimitException,
\* imported at api_server.py:15-19
CreditExhaustedException(credits_remaining, topup_url) ==
    Exc("CreditExhaustedException", 0, None, credits_remaining, topup_url, None)

RateLimitException(retry_after) ==
    Exc("RateLimitException", 0, None, None, None, retry_after)

Exception(msg) == Exc("Exception", 0, msg, None, None, None)

HTTPException(status_code, detail) ==
    Exc("HTTPException", status_code, detail, None, None, None)

Detail(error, credits_remaining, topup_url, retry_after) ==
    [error |-> error, credits_remaining |-> credits_remaining,
     topup_url |-> topup_url, retry_after |-> retry_after]

NoBody == [success |-> FALSE]

ErrorResponse(status_code, detail) ==
    [status_code |-> status_code, detail |-> detail, body |-> NoBody]

OkResponse(body) ==
    [status_code |-> 200, detail |-> Detail(None, None, None, None),
     body |-> body]

\* the `except CreditExhaustedException` clause shared by the gateway
Http402(e) ==
    ErrorResponse(402, Detail("API credits exhausted", e.credits_remaining,
                              e.topup_url, None))

Http429As500(e) ==
    ErrorResponse(500, Detail("Rate limit exceeded", None, None, e.retry_after))

\* the `except RateLimitException` clause shared by the gateway
Http429(e) ==
    ErrorResponse(429, Detail("Rate limit exceeded", None, None, e.retry_after))

Http500(prefix) == ErrorResponse(500, Detail(prefix, None, None, None))

\* fastapi re-raise of an HTTPException: its status and detail are the response
HttpRaised(e) == ErrorResponse(e.status_code, Detail(e.detail, None, None, None))

\* api_server.py:77-84, Depends(get_api_key)
get_api_key(key) ==
    IF key THEN ExcOk
    ELSE HTTPException(401, "API key not configured")

\* api_server.py:349-370
ExceptSearchBrands(e) ==
    CASE e.type = "CreditExhaustedException" -> Http402(e)
      [] e.type = "RateLimitException" -> Http429(e)
      [] OTHER -> Http500("Brand search failed")

\* api_server.py:406-427: no `except HTTPException: raise` clause
ExceptGetAds(e) ==
    CASE e.type = "CreditExhaustedException" -> Http402(e)
      [] e.type = "RateLimitException" -> Http429(e)
      [] OTHER -> Http500("Get ads failed")

\* api_server.py:444-446: HTTPException is an Exception
ExceptAnalyzeTrends(e) == Http500("Trend analysis failed")

ExceptGenerateNoReraise(e) ==
    CASE e.type = "CreditExhaustedException" -> Http402(e)
      [] e.type = "RateLimitException" -> Http429(e)
      [] OTHER -> Http500("Video generation failed")

\* api_server.py:511-534
ExceptGenerate(e) ==
    CASE e.type = "CreditExhaustedException" -> Http402(e)
      [] e.type = "RateLimitException" -> Http429(e)
      [] e.type = "HTTPException" -> HttpRaised(e)
      [] OTHER -> Http500("Video generation failed")

\* api_server.py:873-896
ExceptAnalyzeAll(e) ==
    CASE e.type = "CreditExhaustedException" -> Http402(e)
      [] e.type = "RateLimitException" -> Http429(e)
      [] e.type = "HTTPException" -> HttpRaised(e)
      [] OTHER -> Http500("Video analysis and generation failed")

(***************************************************************************)
(* Ad-library client (scrapecreators_service): its results are inputs      *)
(***************************************************************************)
Brands == {"BrandA", "BrandB"}

\* request.brand_names: Union[str, List[str]] (api_server.py:53)
BrandRequests ==
    {[isStr |-> TRUE, names |-> <<"BrandA">>],
     [isStr |-> FALSE, names |-> <<>>],
     [isStr |-> FALSE, names |-> <<"BrandA", "BrandB">>],
     [isStr |-> FALSE, names |-> <<"BrandB", "BrandB">>]}

PlatformOf(b) == IF b = "BrandA" THEN "p1" ELSE "p2"

\* failures a client call can raise
ClientFailures ==
    {CreditExhaustedException("3", "https://topup"),
     RateLimitException("60"),
     Exception("request failed")}

ConfigFailure == Exception("API key not configured")

\* outcomes of one client call: without a key the client cannot issue it
ClientExcs(key) == IF key THEN {ExcOk} \cup ClientFailures ELSE {ConfigFailure}

\* get_platform_id(name) / get_platform_ids_batch(names): `found[b]` tells
\* whether brand b resolves to a platform ID
ResolveOutcomes(brand_names, key) ==
    {[exc |-> e, found |-> [b \in Range(brand_names.names) |-> FALSE]] :
        e \in ClientExcs(key) \ {ExcOk}}
    \cup (IF key
          THEN {[exc |-> ExcOk, found |-> f] :
                    f \in [Range(brand_names.names) -> BOOLEAN]}
          ELSE {})

\* the mapping {name: platform_id} one brand resolves to, as its values
IdsOf(found, b) == IF found[b] THEN <<PlatformOf(b)>> ELSE <<>>

\* get_platform_ids_batch: a dict keyed by brand name
BatchKeys(brand_names) == Dedup(brand_names.names)

\* api_server.py:378-385 (and 454-461, 699-706)
PlatformList(brand_names, found) ==
    IF brand_names.isStr
    THEN IdsOf(found, brand_names.names[1])
    ELSE LET keys == BatchKeys(brand_names)
         IN Flatten([i \in 1..Len(keys) |-> IdsOf(found, keys[i])])

ResolveOp(brand_names) ==
    IF brand_names.isStr THEN "get_platform_id" ELSE "get_platform_ids_batch"

\* the i-th ad the platform holds for an advertiser page
CatalogueAd(p, i) ==
    IF p = "p1"
    THEN IF i % 3 = 0
         THEN Ad(i, "BrandA", "IMAGE", <<"cdn/", ".jpg">>)
         ELSE Ad(i, "BrandA", "VIDEO", <<"cdn/", ".mp4">>)
    ELSE IF i % 3 = 1
         THEN Ad(100 + i, "BrandB", "IMAGE", <<"cdn/", ".png">>)
         ELSE Ad(100 + i, "BrandB", "VIDEO", <<"cdn/", "video">>)

AdsOf(p, n) == [i \in 1..n |-> CatalogueAd(p, i)]

\* get_ads_batch(platform_list, limit, country, trim=True): `count[p]` is
\* the number of ads returned for platform p
FetchOutcomes(platform_list, key) ==
    {[exc |-> e, count |-> [p \in Range(platform_list) |-> 0]] :
        e \in ClientExcs(key) \ {ExcOk}}
    \cup (IF key
          THEN {[exc |-> ExcOk, count |-> c] :
                    c \in [Range(platform_list) -> 0..MaxAdsPerPlatform]}
          ELSE {})

\* api_server.py:394-396 (and 470-472, 717-719): ads_results is a dict
\* keyed by platform ID
AllAds(platform_list, count) ==
    LET keys == Dedup(platform_list)
    IN Flatten([i \in 1..Len(keys) |-> AdsOf(keys[i], count[keys[i]])])

\* one logged call: its name, the exception it raised (ExcOk: none) and,
\* for the ad-library client, what it returned
CallReturning(op, exc, items) == [op |-> op, exc |-> exc, items |-> items]

Call(op, exc) == CallReturning(op, exc, <<>>)

\* the outcome of a service call that returns a {success, message} envelope
Envelope(result) ==
    IF result.success THEN ExcOk
    ELSE Exc("failure_envelope", 0, result.message, None, None, None)

(***************************************************************************)
(* Trend Analysis Engine and Script/Description Generation Engine          *)
(***************************************************************************)
CountTypeAnyCase(ads_data, mtype) ==
    Cardinality({i \in 1..Len(ads_data) :
                    ads_data[i].media_type
                        \in {mtype, IF mtype = "VIDEO" THEN "video" ELSE mtype}})

\* trend_analysis_service.py:38-39, the length of one filtered list
CountType(ads_data, mtype) ==
    Cardinality({i \in 1..Len(ads_data) : ads_data[i].media_type = mtype})

NoMetadata ==
    [total_ads |-> 0, image_ads |-> 0, video_ads |-> 0, analysis_type |-> None]

\* trend_analysis_service.py:28-77.  `internal_error`: one of the
\* sub-analyses of lines 42-53 raised
analyze_trends_from_ads(ads_data, analysis_type, internal_error) ==
    IF ads_data = <<>>
    THEN [success |-> FALSE, message |-> "No ads data provided for analysis",
          error |-> "Empty ads data", analysis_metadata |-> NoMetadata,
          analyzed_videos |-> <<>>]
    ELSE IF internal_error
    THEN [success |-> FALSE, message |-> "Failed to analyze trends",
          error |-> "exception", analysis_metadata |-> NoMetadata,
          analyzed_videos |-> <<>>]
    ELSE [success |-> TRUE, message |-> "Successfully analyzed trends",
          error |-> None,
          analysis_metadata |->
              [total_ads |-> Len(ads_data),
               image_ads |-> CountType(ads_data, "IMAGE"),
               video_ads |-> CountType(ads_data, "VIDEO"),
               analysis_type |-> analysis_type],
          analyzed_videos |->
              Filter(ads_data, [ad \in Range(ads_data) |->
                                    ad.media_type = "VIDEO"])]

\* video_generator_service.py:13
supported_generators == {"veo", "runway", "pika", "stable_video", "sora"}

\* str.lower() on the generator names a client can send
LowerName(name) ==
    CASE name = "VEO" -> "veo"
      [] name = "Sora" -> "sora"
      [] OTHER -> name

\* a non-empty dict handed to the generator as trends_data
TrendsData(trend_analysis) == [present |-> TRUE, envelope |-> trend_analysis]

VariationsWithoutCompetitive == <<"emotional", "technical">>

\* the three variations of _create_unique_variations
\* (video_generator_service.py:674-691) and _create_video_variations
\* (1095-1130), by their focus
Variations == <<"emotional", "technical", "competitive">>

\* video_generator_service.py:919-949.  The tips are the one about trending
\* video (format_distribution['VIDEO'] > 0) and the block of the generator,
\* named by its key
generate_technical_specs(trends_data, generator_type) ==
    [generator_type |-> generator_type,
     optimization_tips |->
         (IF trends_data.envelope.analysis_metadata.video_ads > 0
          THEN <<"Video content is trending">> ELSE <<>>)
         \o (IF LowerName(generator_type) \in supported_generators
             THEN <<LowerName(generator_type)>> ELSE <<>>)]

generate_video_descriptionKeepingType(user_query, trends_data, generator_type, internal_error) ==
    IF user_query = "" \/ ~trends_data.present
    THEN [success |-> FALSE,
          message |-> "User query and trends data are required",
          error |-> "Missing required parameters", generator_type |-> None,
          has_variations |-> FALSE, variations |-> <<>>,
          technical_specifications |-> None]
    ELSE IF internal_error
    THEN [success |-> FALSE,
          message |-> "Failed to generate video description",
          error |-> "exception", generator_type |-> None,
          has_variations |-> FALSE, variations |-> <<>>,
          technical_specifications |-> None]
    ELSE [success |-> TRUE,
          message |-> "Generated unique video descriptions",
          error |-> None,
          generator_type |-> generator_type,
          has_variations |-> TRUE, variations |-> Variations,
          technical_specifications |->
              generate_technical_specs(trends_data, generator_type)]

\* video_generator_service.py:107-163.  `internal_error`: one of the
\* helpers of lines 121-141 raised.  The failure envelopes have no
\* `variations` and no `technical_specifications` key
generate_video_description(user_query, trends_data, generator_type, internal_error) ==
    IF user_query = "" \/ ~trends_data.present
    THEN [success |-> FALSE,
          message |-> "User query and trends data are required",
          error |-> "Missing required parameters", generator_type |-> None,
          has_variations |-> FALSE, variations |-> <<>>,
          technical_specifications |-> None]
    ELSE IF internal_error
    THEN [success |-> FALSE,
          message |-> "Failed to generate video description",
          error |-> "exception", generator_type |-> None,
          has_variations |-> FALSE, variations |-> <<>>,
          technical_specifications |-> None]
    ELSE LET used == IF LowerName(generator_type) \in supported_generators
                     THEN generator_type ELSE "veo"
         IN [success |-> TRUE,
             message |-> "Generated unique video descriptions",
             error |-> None,
             generator_type |-> used,
             has_variations |-> TRUE, variations |-> Variations,
             technical_specifications |->
                 generate_technical_specs(trends_data, used)]

(***************************************************************************)
(* Gateway: requests                                                       *)
(***************************************************************************)
UserQueries == {"", "promo video"}
GeneratorTypes == {"veo", "unknown_gen"}

Request(endpoint, brand_names, user_query, generator_type, ads_data, media_url) ==
    [endpoint |-> endpoint, brand_names |-> brand_names,
     user_query |-> user_query, generator_type |-> generator_type,
     ads_data |-> ads_data, media_url |-> media_url]

NoBrands == [isStr |-> FALSE, names |-> <<>>]

NoBatchInfo ==
    [present |-> FALSE, total_requested |-> 0, successful |-> 0, failed |-> 0]

\* api_server.py:331-339
BatchInfo(brand_names, found) ==
    LET keys == BatchKeys(brand_names)
        successful_brands ==
            Cardinality({i \in 1..Len(keys) : IdsOf(found, keys[i]) # <<>>})
    IN [present |-> TRUE,
        total_requested |-> Len(brand_names.names),
        successful |-> successful_brands,
        failed |-> Len(brand_names.names) - successful_brands]

\* api_server.py:325-347, the try body once resolution returned
SearchBrandsBody(brand_names, found) ==
    LET platform_list == PlatformList(brand_names, found)
    IN [success |-> TRUE,
        total_results |-> Len(platform_list),
        batch_info |-> IF brand_names.isStr THEN NoBatchInfo
                       ELSE BatchInfo(brand_names, found)]

Unused ==
    /\ UNCHANGED <<scrapeKey, environ, argv, cache, tempFiles>>
    /\ temp_file' = 0

\* POST /api/v1/brands/search (api_server.py:321-370)
search_brands ==
    \E brand_names \in BrandRequests :
        /\ req' = Request("brands/search", brand_names, None, None, <<>>, <<>>)
        /\ IF get_api_key(scrapeKey) # ExcOk
           THEN /\ resp' = HttpRaised(get_api_key(scrapeKey))
                /\ calls' = <<>>
           ELSE \E ro \in ResolveOutcomes(brand_names, scrapeKey) :
                    /\ calls' = <<CallReturning(ResolveOp(brand_names),
                                    ro.exc,
                                    PlatformList(brand_names, ro.found))>>
                    /\ resp' = IF ro.exc # ExcOk
                               THEN ExceptSearchBrands(ro.exc)
                               ELSE OkResponse(SearchBrandsBody(brand_names,
                                                                ro.found))
        /\ UNCHANGED GEMINI_API_KEY
        /\ Unused

\* api_server.py:398-404
GetAdsBody(platform_list, all_ads) ==
    [success |-> TRUE, total_ads |-> Len(all_ads),
     platform_ids_processed |-> Len(platform_list)]

\* POST /api/v1/ads/get (api_server.py:373-427)
get_ads_endpoint ==
    \E brand_names \in BrandRequests :
        /\ req' = Request("ads/get", brand_names, None, None, <<>>, <<>>)
        /\ IF get_api_key(scrapeKey) # ExcOk
           THEN /\ resp' = HttpRaised(get_api_key(scrapeKey))
                /\ calls' = <<>>
           ELSE \E ro \in ResolveOutcomes(brand_names, scrapeKey) :
                \E platform_list \in {PlatformList(brand_names, ro.found)} :
                LET resolve == CallReturning(ResolveOp(brand_names), ro.exc,
                                             platform_list)
                IN IF ro.exc # ExcOk
                   THEN /\ calls' = <<resolve>>
                        /\ resp' = ExceptGetAds(ro.exc)
                   ELSE IF platform_list = <<>>
                   THEN /\ calls' = <<resolve>>
                        /\ resp' = ExceptGetAds(HTTPException(404,
                                       "No platform IDs found"))
                   ELSE \E fo \in FetchOutcomes(platform_list, scrapeKey) :
                        \E all_ads \in {AllAds(platform_list, fo.count)} :
                        /\ calls' = <<resolve, CallReturning("get_ads_batch",
                                                    fo.exc, all_ads)>>
                        /\ resp' =
                             IF fo.exc # ExcOk
                             THEN ExceptGetAds(fo.exc)
                             ELSE OkResponse(GetAdsBody(platform_list,
                                                        all_ads))
        /\ UNCHANGED GEMINI_API_KEY
        /\ Unused

\* ads_data a client can post: a prefix of one page's ads
AdsData == {AdsOf(p, n) : p \in {"p1", "p2"}, n \in 0..MaxAdsPerPlatform}

\* POST /api/v1/trends/analyze (api_server.py:430-446)
analyze_trends ==
    \E ads_data \in AdsData, internal_error \in BOOLEAN :
        LET result == analyze_trends_from_ads(ads_data, "comprehensive",
                                              internal_error)
        IN /\ req' = Request("trends/analyze", NoBrands, None, None,
                             ads_data, <<>>)
           /\ calls' = <<Call("analyze_trends_from_ads", Envelope(result))>>
           /\ resp' = IF ~result.success
                      THEN ExceptAnalyzeTrends(HTTPException(400,
                                                             result.message))
                      ELSE OkResponse(result)
           /\ UNCHANGED GEMINI_API_KEY
           /\ Unused

(***************************************************************************)
(* Generative Video-Understanding Client (gemini_service.py)               *)
(***************************************************************************)
Flag == "--gemini-api-key"

Truthy(v) == v # None /\ v # ""

\* list.index: the first position holding x
IndexOf(s, x) == CHOOSE i \in 1..Len(s) : s[i] = x /\ \A j \in 1..(i - 1) : s[j] # x

get_gemini_api_keyUncached(cached, args, env) ==
    IF Flag \in Range(args)
    THEN LET token_index == IndexOf(args, Flag) + 1
         IN IF token_index <= Len(args)
            THEN [exc |-> ExcOk, key |-> args[token_index]]
            ELSE [exc |-> Exception("no key value followed the flag"),
                  key |-> None]
    ELSE IF Truthy(env)
    THEN [exc |-> ExcOk, key |-> env]
    ELSE [exc |-> Exception("Gemini API key must be provided"), key |-> None]

\* gemini_service.py:14-43.  Returns the exception raised (or ExcOk) and
\* the value of the module global after the call
get_gemini_api_key(cached, args, env) ==
    IF cached # None
    THEN [exc |-> ExcOk, key |-> cached]
    ELSE IF Flag \in Range(args)
    THEN LET token_index == IndexOf(args, Flag) + 1
         IN IF token_index <= Len(args)
            THEN [exc |-> ExcOk, key |-> args[token_index]]
            ELSE [exc |-> Exception("no key value followed the flag"),
                  key |-> None]
    ELSE IF Truthy(env)
    THEN [exc |-> ExcOk, key |-> env]
    ELSE [exc |-> Exception("Gemini API key must be provided"), key |-> None]

\* gemini_service.py:46-60
configure_gemini(cached, args, env) == get_gemini_api_key(cached, args, env)

\* final remote state of an upload, or a failed upload request
UploadOutcomes == {"ACTIVE", "FAILED", "upload_error"}

\* gemini_service.py:63-94: raises when the upload request fails or the
\* remote state ends as FAILED, returns the handle otherwise
upload_video_to_gemini(outcome) ==
    LET exc == CASE outcome = "ACTIVE" -> ExcOk
                 [] outcome = "FAILED" -> Exception("Video processing failed")
                 [] OTHER -> Exception("upload failed")
    IN [exc |-> exc, calls |-> <<Call("upload_video_to_gemini", exc)>>]

\* response.text of model.generate_content, or a failed request
GenerateOutcomes == {"analysis text", "", "generate_error"}

\* gemini_service.py:97-124
analyze_video_with_model(outcome) ==
    [exc |-> CASE outcome = "generate_error" -> Exception("generate failed")
               [] outcome = "" -> Exception("Gemini returned empty response")
               [] OTHER -> ExcOk,
     text |-> outcome,
     calls |-> <<Call("model.generate_content",
                      IF outcome = "generate_error"
                      THEN Exception("generate failed") ELSE ExcOk)>>]

\* gemini_service.py:277-288: never raises
cleanup_gemini_file(delete_ok) ==
    <<Call("genai.delete_file",
           IF delete_ok THEN ExcOk ELSE Exception("delete failed"))>>

\* tempfile.NamedTemporaryFile(delete=False): a name not on disk
NewTemp(files) == CHOOSE n \in 1..(Cardinality(files) + 1) : n \notin files

VideoOracle(download_ok, upload, generate, delete_ok) ==
    [download_ok |-> download_ok, upload |-> upload, generate |-> generate,
     delete_ok |-> delete_ok]

VideoOracles ==
    {VideoOracle(d, u, g, x) : d \in BOOLEAN, u \in UploadOutcomes,
                               g \in GenerateOutcomes, x \in BOOLEAN}

FailureEnvelope(message) ==
    [success |-> FALSE, message |-> message, error |-> message,
     raw_analysis |-> None, model_used |-> None]

analyze_video_with_geminiModelUnchecked(cached, args, env, files, o) ==
    LET cfg == configure_gemini(cached, args, env)
        tmp == NewTemp(files)
        get == Call("requests.get",
                    IF o.download_ok THEN ExcOk
                    ELSE Exception("download failed"))
        up == upload_video_to_gemini(o.upload)
        an == analyze_video_with_model(o.generate)
        unlink == <<Call("os.unlink", ExcOk)>>
        Result(envelope, cs, key, created) ==
            [envelope |-> envelope, calls |-> cs, key |-> key,
             files |-> files, created |-> created]
    IN IF ~Truthy(env)
       THEN Result(FailureEnvelope("Gemini API key not configured"),
                   <<>>, cached, 0)
       ELSE IF cfg.exc # ExcOk
       THEN Result(FailureEnvelope(cfg.exc.detail), <<>>, cached, 0)
       ELSE IF ~o.download_ok
       THEN Result(FailureEnvelope("download failed"), <<get>>, cfg.key, 0)
       ELSE IF up.exc # ExcOk
       THEN Result(FailureEnvelope(up.exc.detail),
                   <<get>> \o up.calls \o unlink, cfg.key, tmp)
       ELSE Result([success |-> TRUE, message |-> None, error |-> None,
                    raw_analysis |-> an.text,
                    model_used |-> "gemini-1.5-pro"],
                   <<get>> \o up.calls \o an.calls
                       \o cleanup_gemini_file(o.delete_ok) \o unlink,
                   cfg.key, tmp)

\* gemini_service.py:291-388, analyze_video_with_gemini(media_url,
\* brand_name, ad_id).  Returns the envelope, the external calls made, the
\* module global and the temp files on disk after the call, and the temp
\* file the call created (0: none)
analyze_video_with_gemini(cached, args, env, files, o) ==
    LET cfg == configure_gemini(cached, args, env)
        tmp == NewTemp(files)
        get == Call("requests.get",
                    IF o.download_ok THEN ExcOk
                    ELSE Exception("download failed"))
        up == upload_video_to_gemini(o.upload)
        an == analyze_video_with_model(o.generate)
        unlink == <<Call("os.unlink", ExcOk)>>
        Result(envelope, cs, key, created) ==
            [envelope |-> envelope, calls |-> cs, key |-> key,
             files |-> files, created |-> created]
    IN IF ~Truthy(env)
       THEN Result(FailureEnvelope("Gemini API key not configured"),
                   <<>>, cached, 0)
       ELSE IF cfg.exc # ExcOk
       THEN Result(FailureEnvelope(cfg.exc.detail), <<>>, cached, 0)
       ELSE IF ~o.download_ok
       THEN Result(FailureEnvelope("download failed"), <<get>>, cfg.key, 0)
       ELSE IF up.exc # ExcOk
       THEN Result(FailureEnvelope(up.exc.detail),
                   <<get>> \o up.calls \o unlink, cfg.key, tmp)
       ELSE IF an.exc # ExcOk
       THEN Result(FailureEnvelope(an.exc.detail),
                   <<get>> \o up.calls \o an.calls \o unlink, cfg.key, tmp)
       ELSE Result([success |-> TRUE, message |-> None, error |-> None,
                    raw_analysis |-> an.text,
                    model_used |-> "gemini-1.5-pro"],
                   <<get>> \o up.calls \o an.calls
                       \o cleanup_gemini_file(o.delete_ok) \o unlink,
                   cfg.key, tmp)

(***************************************************************************)
(* Gateway: the two brand workflows                                        *)
(***************************************************************************)
\* api_server.py:494-509
GenerateBody(platform_list, all_ads, trend_analysis, video_description_result, generator_type) ==
    [success |-> TRUE,
     platform_ids_found |-> Len(platform_list),
     ads_analyzed |-> Len(all_ads),
     generator_type |-> generator_type,
     analysis_metadata |-> trend_analysis.analysis_metadata]

\* steps 3 and 4 with the generator started whatever step 3 returned
GenerateFromAdsPastTrendFailure(platform_list, all_ads, user_query, generator_type, trend_error, generator_error) ==
    LET trend_analysis ==
            analyze_trends_from_ads(all_ads, "comprehensive", trend_error)
        trend_call == Call("analyze_trends_from_ads", Envelope(trend_analysis))
        video_description_result ==
            generate_video_description(user_query, [present |-> TRUE,
                                                    envelope |-> trend_analysis],
                                       generator_type, generator_error)
        generate_call == Call("generate_video_description",
                              Envelope(video_description_result))
    IN IF ~trend_analysis.success \/ ~video_description_result.success
       THEN [calls |-> <<trend_call, generate_call>>,
             resp |-> ExceptGenerate(HTTPException(400,
                                                   trend_analysis.message))]
       ELSE [calls |-> <<trend_call, generate_call>>,
             resp |-> OkResponse(GenerateBody(platform_list, all_ads,
                                     trend_analysis, video_description_result,
                                     generator_type))]

\* api_server.py:477-509, steps 3 and 4 and the response
GenerateFromAds(platform_list, all_ads, user_query, generator_type, trend_error, generator_error) ==
    LET trend_analysis ==
            analyze_trends_from_ads(all_ads, "comprehensive", trend_error)
        trend_call == Call("analyze_trends_from_ads", Envelope(trend_analysis))
        video_description_result ==
            generate_video_description(user_query, TrendsData(trend_analysis),
                                       generator_type, generator_error)
        generate_call == Call("generate_video_description",
                              Envelope(video_description_result))
    IN IF ~trend_analysis.success
       THEN [calls |-> <<trend_call>>,
             resp |-> ExceptGenerate(HTTPException(400,
                                                   trend_analysis.message))]
       ELSE IF ~video_description_result.success
       THEN [calls |-> <<trend_call, generate_call>>,
             resp |-> ExceptGenerate(HTTPException(400,
                                         video_description_result.message))]
       ELSE [calls |-> <<trend_call, generate_call>>,
             resp |-> OkResponse(GenerateBody(platform_list, all_ads,
                                     trend_analysis, video_description_result,
                                     generator_type))]

\* POST /api/v1/video/generate (api_server.py:449-534)
generate_video_description_full ==
    \E brand_names \in BrandRequests, user_query \in UserQueries,
       generator_type \in GeneratorTypes :
        /\ req' = Request("video/generate", brand_names, user_query,
                          generator_type, <<>>, <<>>)
        /\ IF get_api_key(scrapeKey) # ExcOk
           THEN /\ resp' = HttpRaised(get_api_key(scrapeKey))
                /\ calls' = <<>>
           ELSE \E ro \in ResolveOutcomes(brand_names, scrapeKey) :
                \E platform_list \in {PlatformList(brand_names, ro.found)} :
                LET resolve == CallReturning(ResolveOp(brand_names), ro.exc,
                                             platform_list)
                IN IF ro.exc # ExcOk
                   THEN /\ calls' = <<resolve>>
                        /\ resp' = ExceptGenerate(ro.exc)
                   ELSE IF platform_list = <<>>
                   THEN /\ calls' = <<resolve>>
                        /\ resp' = ExceptGenerate(HTTPException(404,
                                       "No platform IDs found"))
                   ELSE \E fo \in FetchOutcomes(platform_list, scrapeKey) :
                        \E all_ads \in {AllAds(platform_list, fo.count)} :
                        LET fetch == CallReturning("get_ads_batch", fo.exc, all_ads)
                        IN IF fo.exc # ExcOk
                           THEN /\ calls' = <<resolve, fetch>>
                                /\ resp' = ExceptGenerate(fo.exc)
                           ELSE IF all_ads = <<>>
                           THEN /\ calls' = <<resolve, fetch>>
                                /\ resp' = ExceptGenerate(HTTPException(404,
                                               "No ads found for analysis"))
                           ELSE \E trend_error \in BOOLEAN,
                                   generator_error \in BOOLEAN :
                                \E r \in {GenerateFromAds(platform_list,
                                             all_ads, user_query,
                                             generator_type, trend_error,
                                             generator_error)} :
                                   /\ calls' = <<resolve, fetch>> \o r.calls
                                   /\ resp' = r.resp
        /\ UNCHANGED GEMINI_API_KEY
        /\ Unused

Insight(ad_id, page_name, media_url, raw_analysis, model_used) ==
    [ad_id |-> ad_id, page_name |-> page_name, media_url |-> media_url,
     raw_analysis |-> raw_analysis, model_used |-> model_used]

\* api_server.py:740-750
NoVideosInsight ==
    Insight("no_video_found", "No videos available", <<>>,
            "No video content found",
            "no-videos-found")

\* api_server.py:779-792 and 796-809
FallbackInsight(video_ad) ==
    Insight(video_ad.ad_id, video_ad.page_name, video_ad.media_url,
            "fallback analysis text", "fallback-analysis")

\* api_server.py:766-774
SuccessInsight(video_ad, analysis_result) ==
    Insight(video_ad.ad_id, video_ad.page_name, video_ad.media_url,
            analysis_result.raw_analysis, analysis_result.model_used)

\* what can happen to one iteration of the loop of api_server.py:754-810:
\* the awaited analysis returns (with the outcomes of its external calls),
\* or an exception escapes it (its imports at gemini_service.py:303-304 run
\* outside its own try) into the handler's `except Exception`
Raised == [raised |-> TRUE, o |-> VideoOracle(FALSE, "ACTIVE", "", FALSE)]

LoopOracles ==
    {[raised |-> FALSE, o |-> VideoOracle(TRUE, "ACTIVE", "analysis text", TRUE)],
     [raised |-> FALSE, o |-> VideoOracle(FALSE, "ACTIVE", "analysis text", TRUE)],
     Raised}

VideoLimit == 3

AnalyzeOneVideoSkipFailed(acc, video_ad, lo, args, env) ==
    IF lo.raised
    THEN [insights |-> Append(acc.insights, FallbackInsight(video_ad)),
          calls |-> Append(acc.calls, Call("analyze_video_with_gemini",
                                           Exception("raised"))),
          key |-> acc.key, created |-> acc.created]
    ELSE LET rs == {analyze_video_with_gemini(acc.key, args, env, {}, lo.o)}
         IN CHOOSE next \in
                {[insights |->
                      IF r.envelope.success
                      THEN Append(acc.insights,
                                  SuccessInsight(video_ad, r.envelope))
                      ELSE acc.insights,
                  calls |-> Append(acc.calls,
                                   Call("analyze_video_with_gemini",
                                        Envelope(r.envelope))),
                  key |-> r.key,
                  created |-> IF r.created # 0 THEN r.created
                              ELSE acc.created] : r \in rs} : TRUE

\* api_server.py:755-810: one iteration of the loop, for video_ad, run in
\* the state `acc` the earlier iterations left
AnalyzeOneVideo(acc, video_ad, lo, args, env) ==
    IF lo.raised
    THEN [insights |-> Append(acc.insights, FallbackInsight(video_ad)),
          calls |-> Append(acc.calls, Call("analyze_video_with_gemini",
                                           Exception("raised"))),
          key |-> acc.key, created |-> acc.created]
    ELSE LET rs == {analyze_video_with_gemini(acc.key, args, env, {}, lo.o)}
         IN CHOOSE next \in
                {[insights |->
                      Append(acc.insights,
                             IF r.envelope.success
                             THEN SuccessInsight(video_ad, r.envelope)
                             ELSE FallbackInsight(video_ad)),
                  calls |-> Append(acc.calls,
                                   Call("analyze_video_with_gemini",
                                        Envelope(r.envelope))),
                  key |-> r.key,
                  created |-> IF r.created # 0 THEN r.created
                              ELSE acc.created] : r \in rs} : TRUE

\* api_server.py:753-754: the loop over video_ads[:3], from video i on
RECURSIVE AnalyzeVideos(_, _, _, _, _, _)
AnalyzeVideos(video_ads, los, i, acc, args, env) ==
    IF i > Min(Len(video_ads), VideoLimit)
    THEN acc
    ELSE AnalyzeVideos(video_ads, los, i + 1,
                       AnalyzeOneVideo(acc, video_ads[i], los[i], args, env),
                       args, env)

LoopStart(cached) ==
    [insights |-> <<>>, calls |-> <<>>, key |-> cached, created |-> 0]

QueriesWithUrl == {"see https://shop.example"}

\* webpage_analyzer_service.py:198-211
is_valid_url(text) == text \in QueriesWithUrl

\* api_server.py:837-871
AnalyzeAllBody(platform_list, all_ads, all_insights, webpage_success) ==
    [success |-> TRUE,
     video_insights |-> all_insights,
     platform_ids_found |-> Len(platform_list),
     ads_analyzed |-> Len(all_ads),
     videos_analyzed |-> Len(all_insights),
     webpage_analyzed |-> webpage_success]

\* POST /api/v1/video/analyze-all (api_server.py:694-896); the handler has
\* no Depends(get_api_key)
analyze_all_videos ==
    \E brand_names \in BrandRequests,
       user_query \in {"promo video"} \cup QueriesWithUrl :
        /\ req' = Request("video/analyze-all", brand_names, user_query,
                          "veo", <<>>, <<>>)
        /\ \E ro \in ResolveOutcomes(brand_names, scrapeKey) :
           \E platform_list \in {PlatformList(brand_names, ro.found)} :
           LET resolve == CallReturning(ResolveOp(brand_names), ro.exc,
                                        platform_list)
               Stop(cs, r) == /\ calls' = cs
                              /\ resp' = r
                              /\ UNCHANGED GEMINI_API_KEY
                              /\ temp_file' = 0
           IN IF ro.exc # ExcOk
              THEN Stop(<<resolve>>, ExceptAnalyzeAll(ro.exc))
              ELSE IF platform_list = <<>>
              THEN Stop(<<resolve>>,
                        ExceptAnalyzeAll(HTTPException(404,
                                                       "No platform IDs found")))
              ELSE \E fo \in FetchOutcomes(platform_list, scrapeKey) :
                   \E all_ads \in {AllAds(platform_list, fo.count)} :
                   \E video_ads \in {FilterVideoAds(all_ads)} :
                   LET fetch == CallReturning("get_ads_batch", fo.exc, all_ads)
                       n == Min(Len(video_ads), VideoLimit)
                   IN IF fo.exc # ExcOk
                      THEN Stop(<<resolve, fetch>>, ExceptAnalyzeAll(fo.exc))
                      ELSE IF all_ads = <<>>
                      THEN Stop(<<resolve, fetch>>,
                                ExceptAnalyzeAll(HTTPException(404,
                                    "No ads found for analysis")))
                      ELSE \E los \in [1..n -> LoopOracles] :
                           \E loop \in {AnalyzeVideos(video_ads, los, 1,
                                            LoopStart(GEMINI_API_KEY),
                                            argv, environ)} :
                           \E all_insights \in
                                  {IF video_ads = <<>>
                                   THEN <<NoVideosInsight>>
                                   ELSE loop.insights} :
                           \E webpage_success \in
                                  IF is_valid_url(user_query)
                                  THEN BOOLEAN ELSE {FALSE} :
                           LET webpage ==
                                   IF is_valid_url(user_query)
                                   THEN <<Call("analyze_webpage_with_gemini",
                                               IF webpage_success THEN ExcOk
                                               ELSE Exc("failure_envelope", 0,
                                                        "webpage", None, None,
                                                        None))>>
                                   ELSE <<>>
                           IN /\ calls' = <<resolve, fetch>> \o loop.calls
                                              \o webpage
                              /\ resp' =
                                   IF all_insights = <<>>
                                   THEN ExceptAnalyzeAll(HTTPException(400,
                                            "No videos could be analyzed"))
                                   ELSE OkResponse(AnalyzeAllBody(
                                            platform_list, all_ads,
                                            all_insights, webpage_success))
                              /\ GEMINI_API_KEY' = loop.key
                              /\ temp_file' = loop.created
        /\ UNCHANGED <<scrapeKey, environ, argv, cache, tempFiles>>

(***************************************************************************)
(* Media & Analysis Cache (media_cache_service)                            *)
(***************************************************************************)
\* str.strip() on a URL: leading and trailing whitespace tokens removed
RECURSIVE Strip(_)
Strip(url) ==
    IF url = <<>> THEN <<>>
    ELSE IF Head(url) = " " THEN Strip(Tail(url))
    ELSE IF url[Len(url)] = " " THEN Strip(SubSeq(url, 1, Len(url) - 1))
    ELSE url

MediaUrls ==
    {<<>>, <<" ">>, <<"cdn/", ".mp4">>, <<" ", "cdn/", ".mp4", " ">>,
     <<"cdn/", "video">>}

CacheKeys == {Strip(u) : u \in MediaUrls} \ {<<>>}

NoAnalysis == [present |-> FALSE, raw_analysis |-> None, model_used |-> None]

Analysis(raw_analysis, model_used) ==
    [present |-> TRUE, raw_analysis |-> raw_analysis, model_used |-> model_used]

NoEntry == [media |-> FALSE, analysis |-> NoAnalysis]

\* a lookup that never finds the video
get_cached_mediaMiss(c, url) == FALSE

get_cached_media(c, url) == c[url].media

cache_media(c, url) ==
    IF c[url].media THEN c ELSE [c EXCEPT ![url] = [media |-> TRUE,
                                                     analysis |-> NoAnalysis]]

get_analysis_results(c, url) ==
    IF c[url].media THEN c[url].analysis ELSE NoAnalysis

update_analysis_results(c, url, results) ==
    IF c[url].media THEN [c EXCEPT ![url].analysis = results] ELSE c

\* cleanup_old_cache(max_age_days): the entries in `old` are past the age
cleanup_old_cache(c, old) ==
    [u \in DOMAIN c |-> IF u \in old THEN NoEntry ELSE c[u]]

(***************************************************************************)
(* Gateway: single-video analysis and cache management                     *)
(***************************************************************************)
\* api_server.py:950-960
CachedAnalysisBody(cached_analysis) ==
    [success |-> TRUE, message |-> "Video analysis retrieved from cache",
     cached |-> TRUE, analysis |-> cached_analysis,
     cache_status |-> "Used cached analysis"]

\* api_server.py:1058-1068
FreshAnalysisBody(analysis_results, cached_data) ==
    [success |-> TRUE, message |-> "Video analysis completed successfully",
     cached |-> cached_data, analysis |-> analysis_results,
     cache_status |-> IF cached_data THEN "Used cached video"
                      ELSE "Downloaded and cached new video"]

\* api_server.py:1037: the name imported at api_server.py:23 is the async
\* analyze_video_with_gemini(media_url, brand_name, ad_id); calling it
\* without await builds a coroutine object and contacts no model
CoroutineObject == "<coroutine object analyze_video_with_gemini>"

\* api_server.py:1040-1049
AnalysisResults(analysis_text) == Analysis(analysis_text, "gemini-2.0-flash-exp")

ExceptUploadAnalyzeNoCleanup(uploaded, delete_ok) ==
    [calls |-> <<>>,
     resp |-> HttpRaised(HTTPException(500, "Video analysis failed"))]

\* api_server.py:1070-1079, the inner `except Exception`
ExceptUploadAnalyze(uploaded, delete_ok) ==
    [calls |-> IF uploaded THEN cleanup_gemini_file(delete_ok) ELSE <<>>,
     resp |-> HttpRaised(HTTPException(500, "Video analysis failed"))]

\* api_server.py:1030-1079, from the upload on
UploadAndAnalyze(c, url, cached_data, upload, update_ok, delete_ok) ==
    LET up == upload_video_to_gemini(upload)
        analysis_results == AnalysisResults(CoroutineObject)
        update == Call("media_cache.update_analysis_results",
                       IF update_ok THEN ExcOk
                       ELSE Exception("cache update failed"))
        failed == ExceptUploadAnalyze(up.exc = ExcOk, delete_ok)
    IN IF up.exc # ExcOk
       THEN [calls |-> up.calls \o failed.calls, resp |-> failed.resp,
             cache |-> c]
       ELSE IF ~update_ok
       THEN [calls |-> up.calls \o <<update>> \o failed.calls,
             resp |-> failed.resp, cache |-> c]
       ELSE [calls |-> up.calls \o <<update>> \o cleanup_gemini_file(delete_ok),
             resp |-> OkResponse(FreshAnalysisBody(analysis_results,
                                                   cached_data)),
             cache |-> update_analysis_results(c, url, analysis_results)]

AnalyzeCachedVideoAnew(c, url, cached_data, upload, update_ok, delete_ok) ==
    UploadAndAnalyze(c, url, cached_data, upload, update_ok, delete_ok)

\* api_server.py:947-1079, once the video is in the cache
AnalyzeCachedVideo(c, url, cached_data, upload, update_ok, delete_ok) ==
    LET cached_analysis == get_analysis_results(c, url)
    IN IF cached_analysis.present
       THEN [calls |-> <<>>,
             resp |-> OkResponse(CachedAnalysisBody(cached_analysis)),
             cache |-> c]
       ELSE UploadAndAnalyze(c, url, cached_data, upload, update_ok, delete_ok)

\* POST /api/v1/video/analyze (api_server.py:898-1085)
analyze_video ==
    \E media_url \in MediaUrls :
        LET url == Strip(media_url)
            cfg == configure_gemini(GEMINI_API_KEY, argv, environ)
            Finish(cs, r, c, files, created, key) ==
                /\ calls' = cs
                /\ resp' = r
                /\ cache' = c
                /\ tempFiles' = files
                /\ temp_file' = created
                /\ GEMINI_API_KEY' = key
            Stop(cs, r, key) == Finish(cs, r, cache, tempFiles, 0, key)
        IN /\ req' = Request("video/analyze", NoBrands, None, None, <<>>,
                             media_url)
           /\ UNCHANGED <<scrapeKey, environ, argv>>
           /\ IF media_url = <<>> \/ url = <<>>
              THEN Stop(<<>>, HttpRaised(HTTPException(400,
                                  "Media URL is required")), GEMINI_API_KEY)
              ELSE IF ~Truthy(environ)
              THEN Stop(<<>>, HttpRaised(HTTPException(500,
                                  "Gemini API key not configured")),
                        GEMINI_API_KEY)
              ELSE IF cfg.exc # ExcOk
              THEN Stop(<<>>, Http500("Video analysis failed"), GEMINI_API_KEY)
              ELSE IF get_cached_media(cache, url)
              THEN \E upload \in UploadOutcomes, update_ok \in BOOLEAN,
                      delete_ok \in BOOLEAN :
                   LET r == AnalyzeCachedVideo(cache, url, TRUE, upload,
                                               update_ok, delete_ok)
                   IN Finish(r.calls, r.resp, r.cache, tempFiles, 0, cfg.key)
              ELSE \E download_ok \in BOOLEAN :
                   LET get == Call("requests.get",
                                   IF download_ok THEN ExcOk
                                   ELSE Exception("download failed"))
                       tmp == NewTemp(tempFiles)
                       files == tempFiles \cup {tmp}
                   IN IF ~download_ok
                      THEN Stop(<<get>>, Http500("Video analysis failed"),
                                cfg.key)
                      ELSE /\ Cardinality(tempFiles) < MaxTemp
                           /\ \E cache_ok \in BOOLEAN :
                              LET put == Call("media_cache.cache_media",
                                              IF cache_ok THEN ExcOk
                                              ELSE Exception("cache write failed"))
                              IN IF ~cache_ok
                                 THEN Finish(<<get, put>>,
                                             Http500("Video analysis failed"),
                                             cache, files, tmp, cfg.key)
                                 ELSE \E upload \in UploadOutcomes,
                                         update_ok \in BOOLEAN,
                                         delete_ok \in BOOLEAN :
                                      LET r == AnalyzeCachedVideo(
                                                   cache_media(cache, url),
                                                   url, FALSE, upload,
                                                   update_ok, delete_ok)
                                      IN Finish(<<get, put>> \o r.calls,
                                                r.resp, r.cache, files, tmp,
                                                cfg.key)

\* gemini_service.analyze_video_with_gemini(media_url, ...) called on its own
analyze_video_from_url ==
    \E media_url \in CacheKeys, o \in VideoOracles :
        LET r == analyze_video_with_gemini(GEMINI_API_KEY, argv, environ,
                                           tempFiles, o)
        IN /\ Cardinality(tempFiles) < MaxTemp
           /\ req' = Request("analyze_video_with_gemini", NoBrands, None,
                             None, <<>>, media_url)
           /\ resp' = [status_code |-> 0,
                       detail |-> Detail(None, None, None, None),
                       body |-> r.envelope]
           /\ calls' = r.calls
           /\ GEMINI_API_KEY' = r.key
           /\ tempFiles' = r.files
           /\ temp_file' = r.created
           /\ UNCHANGED <<scrapeKey, environ, argv, cache>>

\* GET /api/v1/video/analyze-all/test-gemini (api_server.py:680-692)
test_gemini ==
    \E cfg \in {configure_gemini(GEMINI_API_KEY, argv, environ)} :
        /\ req' = Request("test-gemini", NoBrands, None, None, <<>>, <<>>)
        /\ calls' = <<>>
        /\ temp_file' = 0
        /\ UNCHANGED <<scrapeKey, environ, argv, cache, tempFiles>>
        /\ IF ~Truthy(environ)
           THEN /\ resp' = OkResponse([error |-> "GEMINI_API_KEY not configured",
                                       status |-> "error"])
                /\ UNCHANGED GEMINI_API_KEY
           ELSE IF cfg.exc # ExcOk
           THEN /\ resp' = OkResponse([error |-> "Gemini configuration failed",
                                       status |-> "error"])
                /\ GEMINI_API_KEY' = cfg.key
           ELSE /\ resp' = OkResponse([error |-> None, status |-> "ok"])
                /\ GEMINI_API_KEY' = cfg.key

\* POST /api/v1/cache/cleanup (api_server.py:594-616)
cleanup_cache ==
    \E old \in SUBSET {u \in CacheKeys : cache[u].media} :
        /\ req' = Request("cache/cleanup", NoBrands, None, None, <<>>, <<>>)
        /\ cache' = cleanup_old_cache(cache, old)
        /\ resp' = OkResponse([success |-> TRUE,
                               files_removed |-> Cardinality(old)])
        /\ calls' = <<>>
        /\ temp_file' = 0
        /\ UNCHANGED <<scrapeKey, environ, argv, GEMINI_API_KEY, tempFiles>>

(***************************************************************************)
(* Specifications                                                          *)
(***************************************************************************)
NoRequest == Request("none", NoBrands, None, None, <<>>, <<>>)

NoResponse ==
    [status_code |-> 0, detail |-> Detail(None, None, None, None),
     body |-> NoBody]

ArgvChoices == {<<>>, <<Flag, "arg-key">>, <<Flag>>}

\* the process after start-up: nothing requested yet, the key not resolved,
\* the cache directory empty
Init ==
    /\ scrapeKey \in BOOLEAN
    /\ environ \in {None, "env-key"}
    /\ argv \in ArgvChoices
    /\ GEMINI_API_KEY = None
    /\ cache = [u \in CacheKeys |-> NoEntry]
    /\ tempFiles = {}
    /\ temp_file = 0
    /\ req = NoRequest
    /\ resp = NoResponse
    /\ calls = <<>>

\* the brand and trend endpoints
Next ==
    \/ search_brands
    \/ get_ads_endpoint
    \/ analyze_trends
    \/ generate_video_description_full
    \/ analyze_all_videos

\* the gateway started without the --gemini-api-key argument
InitGateway == Init /\ argv = <<>>

Spec == InitGateway /\ [][Next]_vars

\* the server process is started again (api_server.py:1111-1126): the
\* environment and arguments are read anew, the module global is None again
\* (gemini_service.py:12), the cache directory and stray temp files remain
Restart ==
    /\ environ' \in {None, "env-key"}
    /\ argv' \in ArgvChoices
    /\ GEMINI_API_KEY' = None
    /\ req' = NoRequest
    /\ resp' = NoResponse
    /\ calls' = <<>>
    /\ temp_file' = 0
    /\ UNCHANGED <<scrapeKey, cache, tempFiles>>

\* single-video analysis and the cache
NextAnalyze ==
    \/ analyze_video
    \/ analyze_video_from_url
    \/ test_gemini
    \/ cleanup_cache
    \/ Restart

SpecAnalyze == Init /\ [][NextAnalyze]_vars

\* the video filter of analyze-all applied to one ad record
Classify ==
    /\ req.endpoint = "classify"
    /\ resp = NoResponse
    /\ resp' = OkResponse([success |-> TRUE,
                           video_ads |-> FilterVideoAds(req.ads_data)])
    /\ UNCHANGED <<scrapeKey, environ, argv, GEMINI_API_KEY, cache, tempFiles,
                   temp_file, req, calls>>

Urls == SeqsUpTo(UrlTokens, MaxUrlLen)

InitClassify ==
    /\ scrapeKey = TRUE
    /\ environ = None
    /\ argv = <<>>
    /\ GEMINI_API_KEY = None
    /\ cache = [u \in CacheKeys |-> NoEntry]
    /\ tempFiles = {}
    /\ temp_file = 0
    /\ \E mtype \in MediaTypes, url \in Urls :
           req = Request("classify", NoBrands, None, None,
                         <<Ad(1, "BrandA", mtype, url)>>, <<>>)
    /\ resp = NoResponse
    /\ calls = <<>>

SpecClassify == InitClassify /\ [][Classify]_vars

(***************************************************************************)
(* Claims                                                                  *)
(***************************************************************************)
ClientOps == {"get_platform_id", "get_platform_ids_batch", "get_ads_batch"}

ClientEndpoints ==
    {"brands/search", "ads/get", "video/generate", "video/analyze-all"}

Failed(c) == c.exc.type # "ok"

\* C1: POST /api/v1/trends/analyze answers 400 whenever the trend engine
\* returns a failure envelope.
C1_TrendFailureIs400 ==
    (/\ req.endpoint = "trends/analyze"
     /\ Len(calls) = 1
     /\ calls[1].exc.type = "failure_envelope")
        => resp.status_code = 400

\* C2: POST /api/v1/ads/get answers 404 whenever brand resolution yields no
\* platform IDs, and then never calls the ad fetch.
C2_NoPlatformIdsIs404 ==
    (/\ req.endpoint = "ads/get"
     /\ Len(calls) >= 1
     /\ ~Failed(calls[1])
     /\ calls[1].items = <<>>)
        => /\ resp.status_code = 404
           /\ \A i \in 1..Len(calls) : calls[i].op # "get_ads_batch"

\* C3: POST /api/v1/video/generate maps each stage outcome to its status:
\* no platform IDs -> 404, no ads -> 404, trend failure -> 400, generation
\* failure -> 400, credit exhaustion -> 402, rate limit -> 429.
C3_GenerateStatusCodes ==
    (req.endpoint = "video/generate" /\ Len(calls) >= 1) =>
        LET last == calls[Len(calls)]
        IN /\ (last.op \in ClientOps /\ ~Failed(last) /\ last.items = <<>>)
                  => resp.status_code = 404
           /\ (last.op \in {"analyze_trends_from_ads",
                            "generate_video_description"}
               /\ last.exc.type = "failure_envelope")
                  => resp.status_code = 400
           /\ (last.op \in ClientOps
               /\ last.exc.type = "CreditExhaustedException")
                  => resp.status_code = 402
           /\ (last.op \in ClientOps /\ last.exc.type = "RateLimitException")
                  => resp.status_code = 429

C3_Witness ==
    /\ req.endpoint = "video/generate"
    /\ Len(calls) = 4
    /\ calls[4].op = "generate_video_description"
    /\ calls[4].exc.type = "failure_envelope"
    /\ resp.status_code = 400

\* C4: in every endpoint using the ad-library client, a credit-exhausted
\* failure of a client call gives 402 with credits_remaining and topup_url,
\* a rate-limit failure gives 429 with retry_after, any other exception
\* gives 500, and the failed call is not repeated within the request.
C4_QuotaMapping ==
    (req.endpoint \in ClientEndpoints) =>
        \A i \in 1..Len(calls) :
            (calls[i].op \in ClientOps /\ Failed(calls[i])) =>
                LET e == calls[i].exc
                IN /\ i = Len(calls)
                   /\ \A j \in 1..Len(calls) :
                          calls[j].op = calls[i].op => j = i
                   /\ e.type = "CreditExhaustedException" =>
                          /\ resp.status_code = 402
                          /\ resp.detail.credits_remaining = e.credits_remaining
                          /\ resp.detail.topup_url = e.topup_url
                          /\ e.topup_url # None
                   /\ e.type = "RateLimitException" =>
                          /\ resp.status_code = 429
                          /\ resp.detail.retry_after = e.retry_after
                          /\ e.retry_after # None
                   /\ e.type = "Exception" => resp.status_code = 500

C4_Witness ==
    /\ req.endpoint = "video/analyze-all"
    /\ Len(calls) = 2
    /\ calls[2].op = "get_ads_batch"
    /\ calls[2].exc.type = "RateLimitException"
    /\ resp.status_code = 429

\* C5: without an ad-library API key, every request to an endpoint that
\* uses the ad-library client fails with 401 and makes no client call.
C5_MissingKeyIs401 ==
    (~scrapeKey /\ req.endpoint \in ClientEndpoints)
        => resp.status_code = 401 /\ calls = <<>>

\* the URL a video/analyze request is about, as the handler keys the cache
RequestedUrl(r) == Strip(r.media_url)

HoldsAnalysis(c, r) ==
    /\ r.endpoint = "video/analyze"
    /\ RequestedUrl(r) # <<>>
    /\ c[RequestedUrl(r)].analysis.present

ReturnsCachedAnalysis ==
    /\ resp'.status_code = 200
    /\ resp'.body = CachedAnalysisBody(cache[RequestedUrl(req')].analysis)
    /\ resp'.body.cached
    /\ resp'.body.cache_status = "Used cached analysis"
    /\ calls' = <<>>
    /\ cache' = cache
    /\ tempFiles' = tempFiles

\* C6 as stated: in POST /api/v1/video/analyze, whenever the cache already
\* holds analysis results for the requested URL, the response is the cached
\* analysis (cached=true, "Used cached analysis"), with no download, cache
\* write, upload or model call.
C6_CachedAnalysisAlways ==
    [][HoldsAnalysis(cache, req') => ReturnsCachedAnalysis]_vars

\* C6: in POST /api/v1/video/analyze, whenever the generative-model key is
\* configured and the cache already holds analysis results for the
\* requested URL, the response is the cached analysis (cached=true, "Used
\* cached analysis"), with no download, cache write, upload or model call.
C6_CachedAnalysisWithKey ==
    [][(/\ HoldsAnalysis(cache, req')
        /\ Truthy(environ)
        /\ get_gemini_api_key(GEMINI_API_KEY, argv, environ).exc = ExcOk)
           => ReturnsCachedAnalysis]_vars

C6_Witness ==
    /\ req.endpoint = "video/analyze"
    /\ resp.status_code = 200
    /\ resp.body = CachedAnalysisBody(cache[RequestedUrl(req)].analysis)
    /\ cache[RequestedUrl(req)].analysis.present
    /\ calls = <<>>

\* C7: in POST /api/v1/video/analyze, whenever the upload succeeded and a
\* later step fails, a deletion of the remote file is attempted after the
\* failure and the response is 500, whether or not the deletion succeeds.
C7_RemoteFileDeletedOnFailure ==
    (req.endpoint = "video/analyze") =>
        \A i \in 1..Len(calls), j \in 1..Len(calls) :
            (/\ calls[i].op = "upload_video_to_gemini"
             /\ ~Failed(calls[i])
             /\ i < j
             /\ calls[j].op # "genai.delete_file"
             /\ Failed(calls[j]))
                => /\ resp.status_code = 500
                   /\ \E k \in (j + 1)..Len(calls) :
                          calls[k].op = "genai.delete_file"

C7_Witness ==
    /\ req.endpoint = "video/analyze"
    /\ resp.status_code = 500
    /\ \E i \in 1..Len(calls) :
           calls[i].op = "upload_video_to_gemini" /\ ~Failed(calls[i])
    /\ Len(calls) >= 2
    /\ Failed(calls[Len(calls) - 1])
    /\ calls[Len(calls)].op = "genai.delete_file"
    /\ Failed(calls[Len(calls)])

\* C8: the temporary local file an operation created for a downloaded video
\* is gone when the operation has finished, in analyze_video_with_gemini
\* and in POST /api/v1/video/analyze.
C8_TempFileDeleted ==
    (/\ req.endpoint \in {"video/analyze", "analyze_video_with_gemini"}
     /\ temp_file # 0)
        => temp_file \notin tempFiles

\* C9: in POST /api/v1/video/analyze-all, once a non-empty ad list was
\* fetched the request succeeds; with k >= 1 qualifying videos it carries
\* min(k,3) insights, the j-th about the j-th qualifying video and being its
\* analysis or, when that analysis failed or raised, a "fallback-analysis"
\* insight; with k = 0 it carries the single "no-videos-found" insight.
C9_InsightPerVideo ==
    (/\ req.endpoint = "video/analyze-all"
     /\ Len(calls) >= 2
     /\ calls[2].op = "get_ads_batch"
     /\ ~Failed(calls[2])
     /\ calls[2].items # <<>>)
        => LET qualifying == FilterVideoAds(calls[2].items)
               k == Len(qualifying)
               insights == resp.body.video_insights
               analyses == {i \in 1..Len(calls) :
                                calls[i].op = "analyze_video_with_gemini"}
           IN /\ resp.status_code = 200
              /\ k = 0 => insights = <<NoVideosInsight>> /\ analyses = {}
              /\ k >= 1 =>
                    /\ Len(insights) = Min(k, 3)
                    /\ analyses = {2 + j : j \in 1..Len(insights)}
                    /\ \A j \in 1..Len(insights) :
                          /\ insights[j].ad_id = qualifying[j].ad_id
                          /\ insights[j].media_url = qualifying[j].media_url
                          /\ Failed(calls[2 + j]) =>
                                insights[j].model_used = "fallback-analysis"
                          /\ ~Failed(calls[2 + j]) =>
                                /\ insights[j].model_used = "gemini-1.5-pro"
                                /\ insights[j].raw_analysis = "analysis text"

C9_Witness ==
    /\ req.endpoint = "video/analyze-all"
    /\ resp.status_code = 200
    /\ Len(calls) >= 5
    /\ Len(FilterVideoAds(calls[2].items)) > 3
    /\ Len(resp.body.video_insights) = 3
    /\ calls[3].exc.type = "Exception"
    /\ calls[4].exc.type = "failure_envelope"
    /\ ~Failed(calls[5])
    /\ resp.body.video_insights[3].model_used = "gemini-1.5-pro"

ImageSuffixes == {".jpg", ".jpeg", ".png"}

Classified == req.endpoint = "classify" /\ resp # NoResponse

Qualifies == resp.body.video_ads = req.ads_data

NamesVideo(ad) ==
    \/ ad.media_type = "video"
    \/ \E i \in 1..Len(ad.media_url) :
           LowerToken(ad.media_url[i]) \in {".mp4", "video"}

\* C10 as stated: an ad qualifies as a video exactly when its media_url is
\* non-empty, its media_type is `video` or its URL contains `.mp4` or
\* `video` (case-insensitive), and its URL does not end in .jpg, .jpeg or
\* .png.
C10_ExcludesImageSuffix ==
    Classified =>
        LET ad == req.ads_data[1]
        IN Qualifies <=>
               /\ ad.media_url # <<>>
               /\ NamesVideo(ad)
               /\ \A suffix \in ImageSuffixes :
                      ~EndsWith(Lower(ad.media_url), suffix)

\* C10: an ad qualifies as a video exactly when its media_url is non-empty,
\* its media_type is `video` or its URL contains `.mp4` or `video`
\* (case-insensitive), and its URL contains none of .jpg, .jpeg and .png
\* (case-insensitive) anywhere.
C10_ExcludesImageSubstring ==
    Classified =>
        LET ad == req.ads_data[1]
        IN Qualifies <=>
               /\ ad.media_url # <<>>
               /\ NamesVideo(ad)
               /\ \A i \in 1..Len(ad.media_url) :
                      LowerToken(ad.media_url[i]) \notin ImageSuffixes

C10_Witness ==
    /\ Classified
    /\ ~Qualifies
    /\ req.ads_data[1].media_url = <<".JPEG", ".mp4">>

AnalyzeAllSucceeded ==
    /\ req.endpoint = "video/analyze-all"
    /\ resp.status_code = 200

\* the insight is about one of the ads the request fetched, and that ad
\* passes the video test
ReferencesFetchedVideo(insight, fetched) ==
    \E i \in 1..Len(fetched) :
        /\ IsVideoAd(fetched[i])
        /\ insight.ad_id = fetched[i].ad_id
        /\ insight.page_name = fetched[i].page_name
        /\ insight.media_url = fetched[i].media_url

\* C11 as stated: every element of video_insights in an analyze-all response
\* references an ad record fetched in that request and classified as video.
C11_EveryInsightReferencesVideo ==
    AnalyzeAllSucceeded =>
        \A j \in 1..Len(resp.body.video_insights) :
            ReferencesFetchedVideo(resp.body.video_insights[j], calls[2].items)

\* C11: every element of video_insights in an analyze-all response either
\* references an ad record fetched in that request and classified as video,
\* or is the single canned "no-videos-found" insight, which is produced only
\* when no fetched ad is classified as video.
C11_InsightReferencesVideoOrCanned ==
    AnalyzeAllSucceeded =>
        LET insights == resp.body.video_insights
            fetched == calls[2].items
        IN \A j \in 1..Len(insights) :
               \/ ReferencesFetchedVideo(insights[j], fetched)
               \/ /\ insights[j].model_used = "no-videos-found"
                  /\ Len(insights) = 1
                  /\ \A i \in 1..Len(fetched) : ~IsVideoAd(fetched[i])

C11_Witness ==
    /\ AnalyzeAllSucceeded
    /\ Len(resp.body.video_insights) = 2
    /\ ReferencesFetchedVideo(resp.body.video_insights[2], calls[2].items)
    /\ \E i \in 1..Len(calls[2].items) : ~IsVideoAd(calls[2].items[i])

(***************************************************************************)
(* Key resolution on its own: calls of get_gemini_api_key in one process   *)
(* whose arguments and environment are changed between the calls           *)
(***************************************************************************)
EnvChoices == {None, "", "env-key", "env-key-2"}

KeyArgvChoices ==
    ArgvChoices \cup {<<Flag, "arg-key-2">>, <<"--reload", Flag, "arg-key">>}

KeyResult(r) ==
    [status_code |-> 0, detail |-> Detail(r.exc.detail, None, None, None),
     body |-> [success |-> r.exc = ExcOk, key |-> r.key]]

\* one call of get_gemini_api_key() (gemini_service.py:14-43)
GetKey ==
    \E r \in {get_gemini_api_key(GEMINI_API_KEY, argv, environ)} :
        /\ req' = Request("get_gemini_api_key", NoBrands, None, None, <<>>,
                          <<>>)
        /\ resp' = KeyResult(r)
        /\ GEMINI_API_KEY' = r.key
        /\ calls' = <<>>
        /\ UNCHANGED <<scrapeKey, environ, argv, cache, tempFiles, temp_file>>

\* os.environ['GEMINI_API_KEY'] is set, changed or removed
SetEnviron ==
    /\ environ' \in EnvChoices \ {environ}
    /\ req' = Request("os.environ", NoBrands, None, None, <<>>, <<>>)
    /\ resp' = NoResponse
    /\ calls' = <<>>
    /\ UNCHANGED <<scrapeKey, argv, GEMINI_API_KEY, cache, tempFiles,
                   temp_file>>

\* sys.argv is changed
SetArgv ==
    /\ argv' \in KeyArgvChoices \ {argv}
    /\ req' = Request("sys.argv", NoBrands, None, None, <<>>, <<>>)
    /\ resp' = NoResponse
    /\ calls' = <<>>
    /\ UNCHANGED <<scrapeKey, environ, GEMINI_API_KEY, cache, tempFiles,
                   temp_file>>

InitKey ==
    /\ scrapeKey = TRUE
    /\ environ \in EnvChoices
    /\ argv \in KeyArgvChoices
    /\ GEMINI_API_KEY = None
    /\ cache = [u \in CacheKeys |-> NoEntry]
    /\ tempFiles = {}
    /\ temp_file = 0
    /\ req = NoRequest
    /\ resp = NoResponse
    /\ calls = <<>>

NextKey == GetKey \/ SetEnviron \/ SetArgv

SpecKey == InitKey /\ [][NextKey]_vars

KeyCall == req'.endpoint = "get_gemini_api_key"

Returns(key) ==
    /\ resp'.body.success
    /\ resp'.body.key = key
    /\ GEMINI_API_KEY' = key

RaisesAndCachesNothing ==
    /\ ~resp'.body.success
    /\ GEMINI_API_KEY' = None

\* the flag is among the arguments and a value follows its first occurrence
FlagWithValue(args) ==
    \E i \in 1..(Len(args) - 1) :
        args[i] = Flag /\ \A j \in 1..(i - 1) : args[j] # Flag

FlagValue(args) ==
    args[1 + CHOOSE i \in 1..(Len(args) - 1) :
                 args[i] = Flag /\ \A j \in 1..(i - 1) : args[j] # Flag]

EnvSet(env) == env # None /\ env # ""

\* C12 as stated: get_gemini_api_key returns the cached key once one was
\* resolved, whatever the arguments and environment are now; otherwise it
\* resolves and caches the value of `--gemini-api-key <value>` if present,
\* else the environment variable, and raises, caching nothing, when
\* neither is present.
C12_KeyResolution ==
    [][KeyCall =>
          IF GEMINI_API_KEY # None THEN Returns(GEMINI_API_KEY)
          ELSE IF FlagWithValue(argv) THEN Returns(FlagValue(argv))
          ELSE IF EnvSet(environ) THEN Returns(environ)
          ELSE RaisesAndCachesNothing]_vars

\* C12: as above, except that a `--gemini-api-key` flag that no value
\* follows makes the call raise, caching nothing, even when the
\* environment variable is set.
C12_KeyResolutionFlagFirst ==
    [][KeyCall =>
          IF GEMINI_API_KEY # None THEN Returns(GEMINI_API_KEY)
          ELSE IF FlagWithValue(argv) THEN Returns(FlagValue(argv))
          ELSE IF \E i \in 1..Len(argv) : argv[i] = Flag
               THEN RaisesAndCachesNothing
          ELSE IF EnvSet(environ) THEN Returns(environ)
          ELSE RaisesAndCachesNothing]_vars

\* a key resolved from the argument is returned after the argument was
\* removed and the environment variable set to another key
C12_Witness ==
    /\ req.endpoint = "get_gemini_api_key"
    /\ resp.body.success
    /\ resp.body.key = "arg-key"
    /\ GEMINI_API_KEY = "arg-key"
    /\ argv = <<>>
    /\ environ = "env-key-2"

\* the response says the generative-model credential is not configured
CredentialRejected ==
    CASE req.endpoint = "video/analyze" ->
             /\ resp.status_code = 500
             /\ resp.detail.error = "Gemini API key not configured"
      [] req.endpoint = "analyze_video_with_gemini" ->
             /\ ~resp.body.success
             /\ resp.body.message = "Gemini API key not configured"
      [] req.endpoint = "test-gemini" ->
             resp.body.error = "GEMINI_API_KEY not configured"
      [] OTHER -> FALSE

\* C13: when the key is supplied only through `--gemini-api-key <value>`
\* (GEMINI_API_KEY unset), POST /api/v1/video/analyze, the URL path
\* analyze_video_with_gemini and the test-gemini endpoint do not reject the
\* credential as not configured.
C13_ArgumentKeyAccepted ==
    (FlagWithValue(argv) /\ ~EnvSet(environ)) => ~CredentialRejected

(***************************************************************************)
(* upload_video_to_gemini step by step: the upload request, then the       *)
(* polling loop of gemini_service.py:83-85                                 *)
(***************************************************************************)
\* video_file.state.name as the File API reports it
RemoteStates == {"PROCESSING", "ACTIVE", "FAILED", "STATE_UNSPECIFIED"}

VideoPaths == 1..MaxTemp

UploadRunning ==
    req.endpoint = "upload_video_to_gemini" /\ resp = NoResponse

\* the state the last answer of the File API carried
RemoteState == calls[Len(calls)].items[1]

UploadRaised(msg) ==
    [status_code |-> 0, detail |-> Detail(msg, None, None, None),
     body |-> [success |-> FALSE, handle |-> None]]

UploadReturned(state) ==
    [status_code |-> 0, detail |-> Detail(None, None, None, None),
     body |-> [success |-> TRUE, handle |-> state]]

\* gemini_service.py:76-79: the call starts and genai.upload_file answers
\* with a file in some state, or raises (re-raised at 91-94)
UploadFile ==
    /\ ~UploadRunning
    /\ \E video_path \in VideoPaths :
           /\ temp_file' = video_path
           /\ req' = Request("upload_video_to_gemini", NoBrands, None, None,
                             <<>>, <<>>)
    /\ \/ \E state \in RemoteStates :
              /\ calls' = <<CallReturning("genai.upload_file", ExcOk,
                                          <<state>>)>>
              /\ resp' = NoResponse
       \/ /\ calls' = <<Call("genai.upload_file",
                             Exception("upload failed"))>>
          /\ resp' = UploadRaised("upload failed")
    /\ UNCHANGED <<scrapeKey, environ, argv, GEMINI_API_KEY, cache, tempFiles>>

\* gemini_service.py:83-85: one turn of the loop, taken while the state is
\* PROCESSING; genai.get_file answers with the file again, or raises
UploadPoll ==
    /\ UploadRunning
    /\ RemoteState = "PROCESSING"
    /\ Len(calls) <= MaxPolls
    /\ \/ \E state \in RemoteStates :
              /\ calls' = Append(calls, CallReturning("genai.get_file", ExcOk,
                                                      <<state>>))
              /\ resp' = NoResponse
       \/ /\ calls' = Append(calls, Call("genai.get_file",
                                         Exception("get_file failed")))
          /\ resp' = UploadRaised("get_file failed")
    /\ UNCHANGED <<scrapeKey, environ, argv, GEMINI_API_KEY, cache, tempFiles,
                   temp_file, req>>

UploadReturnIgnoringFailed ==
    /\ UploadRunning
    /\ RemoteState # "PROCESSING"
    /\ resp' = UploadReturned(RemoteState)
    /\ UNCHANGED <<scrapeKey, environ, argv, GEMINI_API_KEY, cache, tempFiles,
                   temp_file, req, calls>>

\* gemini_service.py:87-91: the loop is left; FAILED raises, any other
\* state returns the handle
UploadReturn ==
    /\ UploadRunning
    /\ RemoteState # "PROCESSING"
    /\ resp' = IF RemoteState = "FAILED"
               THEN UploadRaised("Video processing failed")
               ELSE UploadReturned(RemoteState)
    /\ UNCHANGED <<scrapeKey, environ, argv, GEMINI_API_KEY, cache, tempFiles,
                   temp_file, req, calls>>

InitUpload ==
    /\ scrapeKey = TRUE
    /\ environ = "env-key"
    /\ argv = <<>>
    /\ GEMINI_API_KEY = "env-key"
    /\ cache = [u \in CacheKeys |-> NoEntry]
    /\ tempFiles = VideoPaths
    /\ temp_file = 0
    /\ req = NoRequest
    /\ resp = NoResponse
    /\ calls = <<>>

NextUpload == UploadFile \/ UploadPoll \/ UploadReturn

\* the interpreter keeps running the call: the loop turn and the statements
\* after the loop are taken when they can be
SpecUpload ==
    /\ InitUpload
    /\ [][NextUpload]_vars
    /\ WF_vars(UploadPoll)
    /\ WF_vars(UploadReturn)

UploadDone == req.endpoint = "upload_video_to_gemini" /\ resp # NoResponse

LeftProcessing == UploadRunning /\ RemoteState # "PROCESSING"

\* C14: upload_video_to_gemini returns no handle while the remote state is
\* PROCESSING (it polls again, or re-raises a failed poll); a finished call
\* raised if the last state was FAILED and returned the handle otherwise;
\* and once the remote state has left PROCESSING the call terminates.
C14_PollsUntilProcessed ==
    /\ [][(UploadRunning /\ RemoteState = "PROCESSING") =>
              \/ UNCHANGED resp
              \/ /\ ~resp'.body.success
                 /\ calls'[Len(calls')].op = "genai.get_file"
                 /\ Len(calls') = Len(calls) + 1]_vars
    /\ [](UploadDone =>
              /\ resp.body.success =>
                     /\ ~Failed(calls[Len(calls)])
                     /\ RemoteState \notin {"PROCESSING", "FAILED"}
                     /\ resp.body.handle = RemoteState
              /\ (~Failed(calls[Len(calls)]) /\ RemoteState = "FAILED")
                     => ~resp.body.success)
    /\ (LeftProcessing ~> UploadDone)

\* a handle returned after the state was PROCESSING at the upload and at
\* two polls
C14_Witness ==
    /\ UploadDone
    /\ resp.body.success
    /\ Len(calls) = 4
    /\ \A i \in 1..3 : calls[i].items = <<"PROCESSING">>
    /\ RemoteState = "ACTIVE"

(***************************************************************************)
(* upload_videos_batch_to_gemini (gemini_service.py:204-259)               *)
(***************************************************************************)
\* how the upload of one path ends: the state the polling loop is left in,
\* or genai.upload_file raising, or genai.get_file raising during the wait
PathOutcomes ==
    {"ACTIVE", "STATE_UNSPECIFIED", "FAILED", "upload_error", "poll_error"}

\* gemini_service.py:222-240, for one path: the logged upload-and-wait, with
\* the state of the remote file it created (none when the upload raised)
UploadOnePath(outcome) ==
    CASE outcome = "upload_error" ->
             Call("upload_and_wait", Exception("upload failed"))
      [] outcome = "poll_error" ->
             CallReturning("upload_and_wait", Exception("get_file failed"),
                           <<"PROCESSING">>)
      [] OTHER -> CallReturning("upload_and_wait", ExcOk, <<outcome>>)

PathUploaded(c) == ~Failed(c) /\ c.items # <<"FAILED">>

\* gemini_service.py:218-259.  outcomes[i] is how the upload of
\* video_paths[i] ends; returns the exception raised (or ExcOk), the list
\* returned, and the calls made
upload_videos_batch_to_gemini(video_paths, outcomes) ==
    LET uploads == [i \in 1..Len(video_paths) |-> UploadOnePath(outcomes[i])]
        ok == [i \in 1..Len(video_paths) |-> PathUploaded(uploads[i])]
        uploaded_files ==
            Filter(video_paths, [p \in Range(video_paths) |-> ok[p]])
        failed_uploads ==
            Filter(video_paths, [p \in Range(video_paths) |-> ~ok[p]])
        cleanup == [j \in 1..Len(uploaded_files) |->
                        CallReturning("genai.delete_file", ExcOk,
                                      <<uploaded_files[j]>>)]
    IN IF failed_uploads # <<>> /\ uploaded_files = <<>>
       THEN [exc |-> Exception("Some video uploads failed"),
             uploaded_files |-> <<>>, calls |-> uploads \o cleanup]
       ELSE [exc |-> ExcOk, uploaded_files |-> uploaded_files,
             calls |-> uploads]

\* one call of upload_videos_batch_to_gemini; the paths are numbered in
\* input order
UploadBatch ==
    \E n \in 0..MaxBatch :
    \E outcomes \in [1..n -> PathOutcomes] :
    LET r == upload_videos_batch_to_gemini([i \in 1..n |-> i], outcomes)
    IN  /\ req' = Request("upload_videos_batch_to_gemini", NoBrands, None,
                          None, [i \in 1..n |-> i], <<>>)
        /\ calls' = r.calls
        /\ resp' = [status_code |-> 0,
                    detail |-> Detail(r.exc.detail, None, None, None),
                    body |-> [success |-> r.exc = ExcOk,
                              uploaded_files |-> r.uploaded_files]]
        /\ temp_file' = 0
        /\ UNCHANGED <<scrapeKey, environ, argv, GEMINI_API_KEY, cache,
                       tempFiles>>

SpecBatch == InitUpload /\ [][UploadBatch]_vars

\* the paths that ended uploaded, in input order
RECURSIVE UploadedFrom(_)
UploadedFrom(i) ==
    IF i > Len(req.ads_data) THEN <<>>
    ELSE (IF PathUploaded(calls[i]) THEN <<i>> ELSE <<>>)
             \o UploadedFrom(i + 1)

\* C15: upload_videos_batch_to_gemini attempts every path; when at least
\* one path succeeded it returns exactly the handles of the succeeded
\* paths in input order; it raises exactly when at least one path failed
\* and none succeeded; and whenever it raises, a deletion has been
\* attempted for every remote file it had uploaded.
C15_BatchUpload ==
    (req.endpoint = "upload_videos_batch_to_gemini") =>
        LET n == Len(req.ads_data)
            succeeded == UploadedFrom(1)
        IN /\ Len(calls) >= n
           /\ \A i \in 1..n : calls[i].op = "upload_and_wait"
           /\ succeeded # <<>> =>
                 resp.body.success /\ resp.body.uploaded_files = succeeded
           /\ ~resp.body.success <=> (n >= 1 /\ succeeded = <<>>)
           /\ ~resp.body.success =>
                 \A i \in 1..n :
                     calls[i].items # <<>> =>
                         \E k \in (n + 1)..Len(calls) :
                             /\ calls[k].op = "genai.delete_file"
                             /\ calls[k].items = <<i>>

(***************************************************************************)
(* analyze_videos_batch_with_gemini (gemini_service.py:127-201)            *)
(***************************************************************************)
\* f"VIDEO {i}:"
VideoMarker(i) == "VIDEO " \o ToString(i) \o ":"

\* a response text is a sequence of tokens: markers, words and whitespace
TextTokens == {VideoMarker(i) : i \in 1..MaxBatch} \cup {"a", " "}

ResponseTexts == SeqsUpTo(TextTokens, MaxTextLen)

\* str.find: the first position of the marker, 0 when it does not occur
Find(text, marker) ==
    IF \E k \in 1..Len(text) : text[k] = marker
    THEN CHOOSE k \in 1..Len(text) :
             text[k] = marker /\ \A j \in 1..(k - 1) : text[j] # marker
    ELSE 0

\* text[start:end] for 1-based positions start..end-1; empty when end <= start
Slice(text, start, end) ==
    IF end <= start THEN <<>> ELSE SubSeq(text, start, end - 1)

\* gemini_service.py:181
AnalysisNotFound(i) ==
    <<"Analysis not found in batch response for video " \o ToString(i)>>

\* gemini_service.py:174-193: the body of the parsing loop for video i of n
ParseOne(analysis_text, i, n) ==
    LET start_idx == Find(analysis_text, VideoMarker(i))
        end_idx == IF i < n THEN Find(analysis_text, VideoMarker(i + 1))
                   ELSE 0
    IN IF start_idx = 0 THEN AnalysisNotFound(i)
       ELSE IF i < n /\ end_idx # 0
       THEN Strip(Slice(analysis_text, start_idx + 1, end_idx))
       ELSE Strip(Slice(analysis_text, start_idx + 1, Len(analysis_text) + 1))

\* gemini_service.py:143-201.  generate_ok: model.generate_content returns;
\* response_text: the text it returns
analyze_videos_batch_with_gemini(video_files, video_contexts, generate_ok, response_text) ==
    LET generate == CallReturning("model.generate_content",
                                  IF generate_ok THEN ExcOk
                                  ELSE Exception("generate failed"),
                                  IF generate_ok THEN response_text ELSE <<>>)
    IN IF video_files = <<>> \/ Len(video_files) # Len(video_contexts)
       THEN [exc |-> Exception("Video files and contexts must have matching lengths"),
             video_analyses |-> <<>>, calls |-> <<>>]
       ELSE IF ~generate_ok
       THEN [exc |-> Exception("generate failed"),
             video_analyses |-> <<>>, calls |-> <<generate>>]
       ELSE IF response_text = <<>>
       THEN [exc |-> Exception("Gemini returned empty response for batch analysis"),
             video_analyses |-> <<>>, calls |-> <<generate>>]
       ELSE [exc |-> ExcOk,
             video_analyses |->
                 [i \in 1..Len(video_files) |->
                      ParseOne(response_text, i, Len(video_files))],
             calls |-> <<generate>>]

\* the arguments of one call: the files and the contexts, numbered in
\* input order
InitBatchAnalyze ==
    /\ scrapeKey = TRUE
    /\ environ = "env-key"
    /\ argv = <<>>
    /\ GEMINI_API_KEY = "env-key"
    /\ cache = [u \in CacheKeys |-> NoEntry]
    /\ tempFiles = {}
    /\ temp_file = 0
    /\ \E n \in 0..MaxBatch, m \in 0..MaxBatch :
           req = Request("analyze_videos_batch_with_gemini", NoBrands, None,
                         None, [i \in 1..m |-> i], [i \in 1..n |-> i])
    /\ resp = NoResponse
    /\ calls = <<>>

\* the call of analyze_videos_batch_with_gemini on the arguments
AnalyzeBatch ==
    /\ resp = NoResponse
    /\ \E generate_ok \in BOOLEAN :
       \E response_text \in IF generate_ok THEN ResponseTexts ELSE {<<>>} :
       \E r \in {analyze_videos_batch_with_gemini(req.media_url, req.ads_data,
                     generate_ok, response_text)} :
           /\ calls' = r.calls
           /\ resp' = [status_code |-> 0,
                       detail |-> Detail(r.exc.detail, None, None, None),
                       body |-> [success |-> r.exc = ExcOk,
                                 video_analyses |-> r.video_analyses]]
           /\ UNCHANGED <<scrapeKey, environ, argv, GEMINI_API_KEY, cache,
                          tempFiles, temp_file, req>>

SpecBatchAnalyze == InitBatchAnalyze /\ [][AnalyzeBatch]_vars

BatchAnalyzed ==
    req.endpoint = "analyze_videos_batch_with_gemini" /\ resp # NoResponse

\* the positions of marker i in the text
MarkerAt(text, i) == {k \in 1..Len(text) : text[k] = VideoMarker(i)}

First(S) == CHOOSE k \in S : \A j \in S : k <= j

\* the text after position from up to position to (exclusive), trimmed
Between(text, from, to) ==
    Strip([k \in 1..(IF to > from THEN to - from - 1 ELSE 0) |-> text[from + k]])

\* the first `VIDEO i+1:` after position p, or the end of the text when video
\* i is the last one or no such marker follows
NextMarkerAfter(text, i, n, p) ==
    IF i < n /\ \E k \in MarkerAt(text, i + 1) : k > p
    THEN First({k \in MarkerAt(text, i + 1) : k > p})
    ELSE Len(text) + 1

\* the first `VIDEO i+1:` of the whole text, or the end of the text when
\* video i is the last one or the marker is missing
FirstNextMarker(text, i, n) ==
    IF i < n /\ MarkerAt(text, i + 1) # {}
    THEN First(MarkerAt(text, i + 1))
    ELSE Len(text) + 1

\* the call had matching non-empty arguments and a non-empty response
BatchParsed ==
    /\ BatchAnalyzed
    /\ Len(req.media_url) >= 1
    /\ Len(req.media_url) = Len(req.ads_data)
    /\ Len(calls) = 1
    /\ ~Failed(calls[1])
    /\ calls[1].items # <<>>

\* the raising cases and the shape of the result
BatchAnalysisShape ==
    BatchAnalyzed =>
        LET n == Len(req.media_url)
            m == Len(req.ads_data)
        IN /\ (n = 0 \/ n # m) => ~resp.body.success /\ calls = <<>>
           /\ (n >= 1 /\ n = m) =>
                 /\ Len(calls) = 1
                 /\ calls[1].op = "model.generate_content"
                 /\ (~Failed(calls[1]) /\ calls[1].items = <<>>)
                        => ~resp.body.success
           /\ BatchParsed =>
                 /\ resp.body.success
                 /\ Len(resp.body.video_analyses) = n

\* C16: given n >= 1 files, n contexts and a non-empty response,
\* analyze_videos_batch_with_gemini makes one model call and returns n
\* entries in video order: entry i is the text between the marker
\* `VIDEO i:` and the next marker `VIDEO i+1:`, or up to the end of the text
\* for the last video or when no next marker follows, and the "analysis
\* not found" placeholder when marker i is missing; it raises when the
\* file list is empty, the lengths differ or the response is empty.
C16_BatchAnalysisParsing ==
    /\ BatchAnalysisShape
    /\ BatchParsed =>
          LET text == calls[1].items
              n == Len(req.media_url)
          IN \A i \in 1..n :
                resp.body.video_analyses[i] =
                    IF MarkerAt(text, i) = {} THEN AnalysisNotFound(i)
                    ELSE LET p == First(MarkerAt(text, i))
                         IN Between(text, p, NextMarkerAfter(text, i, n, p))

\* what the code computes: entry i ends at the first `VIDEO i+1:` of the
\* whole text, and is empty when that marker precedes `VIDEO i:`
C16_ParsingUpToFirstNextMarker ==
    /\ BatchAnalysisShape
    /\ BatchParsed =>
          LET text == calls[1].items
              n == Len(req.media_url)
          IN \A i \in 1..n :
                resp.body.video_analyses[i] =
                    IF MarkerAt(text, i) = {} THEN AnalysisNotFound(i)
                    ELSE Between(text, First(MarkerAt(text, i)),
                                 FirstNextMarker(text, i, n))

\* three videos: the first analysis ends at the second marker, nothing
\* follows the second marker, the third marker is missing
C16_Witness ==
    /\ BatchParsed
    /\ Len(req.media_url) = 3
    /\ calls[1].items = <<VideoMarker(1), "a", VideoMarker(2)>>
    /\ resp.body.video_analyses = <<<<"a">>, <<>>, AnalysisNotFound(3)>>

\* the second marker precedes the first one: the text after `VIDEO 1:` is
\* dropped
C16_MarkersOutOfOrder ==
    /\ BatchParsed
    /\ Len(req.media_url) = 2
    /\ calls[1].items = <<VideoMarker(2), VideoMarker(1), "a">>
    /\ resp.body.video_analyses = <<<<>>, <<VideoMarker(1), "a">>>>

\* analyze_video_with_gemini was called on its own and has finished
AnalysisFinished == req.endpoint = "analyze_video_with_gemini"

\* the external call `op` was made and succeeded
Succeeded(op) == \E i \in 1..Len(calls) : calls[i].op = op /\ ~Failed(calls[i])

\* C17: analyze_video_with_gemini(media_url, ...) never raises: every
\* failure comes back as an envelope with success false, a message and an
\* error, and success is reported only when the download, the upload and
\* the model call all succeeded.
C17_FailureIsEnvelope ==
    AnalysisFinished =>
        /\ resp.status_code = 0
        /\ resp.body.success \in BOOLEAN
        /\ ~resp.body.success =>
              /\ resp.body.message # None
              /\ resp.body.error # None
        /\ resp.body.success =>
              /\ Succeeded("requests.get")
              /\ Succeeded("upload_video_to_gemini")
              /\ Succeeded("model.generate_content")
              /\ resp.body.raw_analysis # ""

\* the download and the upload succeeded and the model call failed: a
\* failure envelope
C17_Witness ==
    /\ AnalysisFinished
    /\ Succeeded("requests.get")
    /\ Succeeded("upload_video_to_gemini")
    /\ \E i \in 1..Len(calls) :
           calls[i].op = "model.generate_content" /\ Failed(calls[i])
    /\ ~resp.body.success
    /\ resp.body.message = "generate failed"

\* the external call `op` was made
Attempted(op) == \E i \in 1..Len(calls) : calls[i].op = op

\* C18: in analyze_video_with_gemini every remote file that was uploaded
\* successfully has its deletion attempted before the function returns,
\* whether the model call succeeded or failed, and a failed deletion never
\* turns a successful analysis into a failure.
C18_UploadedFileDeletionAttempted ==
    AnalysisFinished =>
        /\ Succeeded("upload_video_to_gemini") => Attempted("genai.delete_file")
        /\ (\E i \in 1..Len(calls) :
                calls[i].op = "genai.delete_file" /\ Failed(calls[i]))
               => resp.body.success
        /\ ~resp.body.success => resp.body.message # "delete failed"

\* the part about a failed deletion: the analysis still succeeds
C18_FailedDeletionKeepsSuccess ==
    /\ AnalysisFinished
    /\ \E i \in 1..Len(calls) :
           calls[i].op = "genai.delete_file" /\ Failed(calls[i])
    /\ resp.body.success

(***************************************************************************)
(* analyze_trends_from_ads on ads of any media type                        *)
(***************************************************************************)
\* ads_data: up to MaxTrendAds ads, each with one of the media types
TrendAdsData ==
    {[i \in 1..Len(types) |-> Ad(i, "BrandA", types[i], <<"cdn/">>)] :
         types \in SeqsUpTo(MediaTypes, MaxTrendAds)}

InitTrends ==
    /\ scrapeKey = TRUE
    /\ environ = "env-key"
    /\ argv = <<>>
    /\ GEMINI_API_KEY = None
    /\ cache = [u \in CacheKeys |-> NoEntry]
    /\ tempFiles = {}
    /\ temp_file = 0
    /\ \E ads_data \in TrendAdsData :
           req = Request("analyze_trends_from_ads", NoBrands, None, None,
                         ads_data, <<>>)
    /\ resp = NoResponse
    /\ calls = <<>>

\* the call trend_analysis_service.analyze_trends_from_ads(ads_data)
AnalyzeTrendsFromAds ==
    /\ resp = NoResponse
    /\ \E internal_error \in BOOLEAN :
       \E result \in {analyze_trends_from_ads(req.ads_data, "comprehensive",
                                              internal_error)} :
           /\ resp' = [status_code |-> 0,
                       detail |-> Detail(None, None, None, None),
                       body |-> result]
           /\ calls' = <<Call("analyze_trends_from_ads", Envelope(result))>>
           /\ UNCHANGED <<scrapeKey, environ, argv, GEMINI_API_KEY, cache,
                          tempFiles, temp_file, req>>

SpecTrends == InitTrends /\ [][AnalyzeTrendsFromAds]_vars

\* the positions of the ads whose media_type is exactly mtype
AdsOfType(ads_data, mtype) ==
    {i \in DOMAIN ads_data : ads_data[i].media_type = mtype}

\* a successful analysis of a non-empty ads_data
TrendsAnalyzed ==
    /\ req.endpoint = "analyze_trends_from_ads"
    /\ req.ads_data # <<>>
    /\ resp # NoResponse
    /\ resp.body.success

\* C19: for a non-empty ads_data whose analysis succeeds, the metadata has
\* total_ads = len(ads_data), video_ads = the number of ads whose media_type
\* is exactly "VIDEO", image_ads = the number whose media_type is exactly
\* "IMAGE", the analyzed_videos list has exactly video_ads entries, and
\* image_ads + video_ads <= total_ads.
C19_TrendMetadataCounts ==
    TrendsAnalyzed =>
        LET meta == resp.body.analysis_metadata
        IN /\ meta.total_ads = Len(req.ads_data)
           /\ meta.video_ads = Cardinality(AdsOfType(req.ads_data, "VIDEO"))
           /\ meta.image_ads = Cardinality(AdsOfType(req.ads_data, "IMAGE"))
           /\ Len(resp.body.analyzed_videos) = meta.video_ads
           /\ \A j \in 1..Len(resp.body.analyzed_videos) :
                 resp.body.analyzed_videos[j].media_type = "VIDEO"
           /\ meta.image_ads + meta.video_ads <= meta.total_ads

\* three ads, one "VIDEO", one "IMAGE" and one "video": the lower-case one
\* is counted in neither list
C19_Witness ==
    /\ TrendsAnalyzed
    /\ Len(req.ads_data) = 3
    /\ \E i \in 1..3 : req.ads_data[i].media_type = "video"
    /\ resp.body.analysis_metadata.video_ads = 1
    /\ resp.body.analysis_metadata.image_ads = 1
    /\ Len(resp.body.analyzed_videos) = 1

(***************************************************************************)
(* Python floats and _calculate_market_concentration                       *)
(* (trend_analysis_service.py:737-751)                                     *)
(***************************************************************************)
\* Python float arithmetic.  A float is an IEEE-754 double, held as a 53-bit
\* mantissa m and an exponent e and standing for m * 2^e; every operation
\* rounds to nearest, ties to even.  The mantissa is a number of four limbs
\* of 14 bits, least significant first.
\*   Float("div", c, d): float(c) / float(d) for small positive integers
\*   Float("mul", x, y): x * y          Float("add", x, y): x + y
\*   Float("gt", x, y):  x > y
Float(op, x, y) ==
    LET LimbBits == 14
        Base == 2 ^ LimbBits
        Limb(M, i) == IF i \in 1..Len(M) THEN M[i] ELSE 0
        \* carry propagation: limbs of any size to limbs below Base
        RECURSIVE Carry(_, _, _, _)
        Carry(wide, i, carry, acc) ==
            IF i > Len(wide)
            THEN IF carry = 0 THEN acc ELSE Append(acc, carry)
            ELSE Carry(wide, i + 1, (wide[i] + carry) \div Base,
                       Append(acc, (wide[i] + carry) % Base))
        BigAdd(X, Y) ==
            Carry([k \in 1..(IF Len(X) > Len(Y) THEN Len(X) ELSE Len(Y)) |->
                       Limb(X, k) + Limb(Y, k)], 1, 0, <<>>)
        \* product of two numbers of at most four limbs
        BigMul(X, Y) ==
            Carry([k \in 1..8 |->
                       Limb(X, 1) * Limb(Y, k) + Limb(X, 2) * Limb(Y, k - 1)
                       + Limb(X, 3) * Limb(Y, k - 2)
                       + Limb(X, 4) * Limb(Y, k - 3)], 1, 0, <<>>)
        \* bit position i: its limb (counted from 0) and its place in it
        LimbOf(i) == i \div LimbBits
        PlaceOf(i) == i % LimbBits
        ShiftLeft(M, s) ==
            Carry([k \in 1..(Len(M) + LimbOf(s)) |->
                       Limb(M, k - LimbOf(s)) * (2 ^ PlaceOf(s))], 1, 0, <<>>)
        ShiftRight(M, s) ==
            [k \in 1..Len(M) |->
                (Limb(M, k + LimbOf(s)) \div (2 ^ PlaceOf(s)))
                + (Limb(M, k + LimbOf(s) + 1) % (2 ^ PlaceOf(s)))
                      * (2 ^ (LimbBits - PlaceOf(s)))]
        TopLimb(M) ==
            CHOOSE t \in 1..Len(M) :
                M[t] # 0 /\ \A j \in (t + 1)..Len(M) : M[j] = 0
        BitLength(M) ==
            (TopLimb(M) - 1) * LimbBits
            + (CHOOSE n \in 1..LimbBits :
                   (2 ^ (n - 1)) <= M[TopLimb(M)] /\ M[TopLimb(M)] < (2 ^ n))
        Bit(M, i) == (Limb(M, LimbOf(i) + 1) \div (2 ^ PlaceOf(i))) % 2
        \* some bit below position n is set
        LowBits(M, n) ==
            \/ \E j \in 1..LimbOf(n) : Limb(M, j) # 0
            \/ (Limb(M, LimbOf(n) + 1) % (2 ^ PlaceOf(n))) # 0
        Mantissa(M) == [k \in 1..4 |-> Limb(M, k)]
        \* M * 2^e (with `sticky`: plus a positive fraction below one unit
        \* of M) rounded to 53 significant bits, ties to even
        Round53(M, sticky, e) ==
            LET s == BitLength(M) - 53
            IN IF s <= 0
               THEN [m |-> Mantissa(ShiftLeft(M, -s)), e |-> e + s]
               ELSE LET q == Mantissa(ShiftRight(M, s))
                        up == Bit(M, s - 1) = 1
                              /\ (LowBits(M, s - 1) \/ sticky \/ Bit(M, s) = 1)
                        r == IF up THEN Mantissa(BigAdd(q, <<1>>)) ELSE q
                    IN IF r[4] >= 2048
                       THEN [m |-> ShiftRight(r, 1), e |-> e + s + 1]
                       ELSE [m |-> r, e |-> e + s]
        \* long division by a small integer, most significant limb first
        RECURSIVE DivSmall(_, _, _, _, _)
        DivSmall(N, d, i, rem, acc) ==
            IF i = 0 THEN [q |-> acc, rem |-> rem]
            ELSE DivSmall(N, d, i - 1, (rem * Base + N[i]) % d,
                          <<(rem * Base + N[i]) \div d>> \o acc)
        \* comparison of mantissas, from the most significant limb
        RECURSIVE BigGreater(_, _, _)
        BigGreater(X, Y, i) ==
            IF i = 0 THEN FALSE
            ELSE IF X[i] # Y[i] THEN X[i] > Y[i]
            ELSE BigGreater(X, Y, i - 1)
    IN CASE op = "div" ->
              LET r == DivSmall(<<0, 0, 0, 0, 0, x>>, y, 6, 0, <<>>)
              IN Round53(r.q, r.rem # 0, -5 * LimbBits)
         [] op = "mul" -> Round53(BigMul(x.m, y.m), FALSE, x.e + y.e)
         [] op = "add" ->
              LET e == IF x.e < y.e THEN x.e ELSE y.e
              IN Round53(BigAdd(ShiftLeft(x.m, x.e - e),
                                ShiftLeft(y.m, y.e - e)), FALSE, e)
         [] op = "gt" -> x.e > y.e \/ (x.e = y.e /\ BigGreater(x.m, y.m, 4))

RECURSIVE SumValues(_, _)
SumValues(values, i) ==
    IF i > Len(values) THEN 0 ELSE values[i] + SumValues(values, i + 1)

\* trend_analysis_service.py:744: sum((count / total_ads) ** 2 for count in
\* brands.values()), the terms added in the Counter's order
RECURSIVE Hhi(_, _, _, _)
Hhi(values, total_ads, i, acc) ==
    IF i > Len(values) THEN acc
    ELSE CHOOSE hhi \in
             {Hhi(values, total_ads, i + 1, next) :
                  next \in {IF i = 1 THEN square ELSE Float("add", acc, square) :
                               square \in {Float("mul", share, share) :
                                   share \in {Float("div", values[i],
                                                    total_ads)}}}} :
             TRUE

\* trend_analysis_service.py:737-751; `values`: brands.values().  The
\* literals 0.25 and 0.15 are the floats nearest to 1/4 and 15/100
calculate_market_concentration(values) ==
    LET total_ads == SumValues(values, 1)
    IN IF total_ads = 0 THEN "Unknown"
       ELSE CHOOSE label \in
                {IF Float("gt", hhi, Float("div", 1, 4))
                 THEN "High concentration (few dominant players)"
                 ELSE IF Float("gt", hhi, Float("div", 15, 100))
                 THEN "Medium concentration"
                 ELSE "Low concentration (fragmented market)" :
                     hhi \in {Hhi(values, total_ads, 1, <<>>)}} : TRUE

\* the Counter of _generate_competitive_analysis (726): up to two brands
\* with up to MaxBrandAds ads each, counted first, and up to
\* MaxSingleAdBrands brands with one ad each
BrandCounters ==
    {(IF a > 0 THEN <<a>> ELSE <<>>) \o (IF b > 0 THEN <<b>> ELSE <<>>)
         \o [i \in 1..k |-> 1] :
         a \in 0..MaxBrandAds, b \in 0..MaxBrandAds, k \in 0..MaxSingleAdBrands}

InitConcentration ==
    /\ scrapeKey = TRUE
    /\ environ = "env-key"
    /\ argv = <<>>
    /\ GEMINI_API_KEY = None
    /\ cache = [u \in CacheKeys |-> NoEntry]
    /\ tempFiles = {}
    /\ temp_file = 0
    /\ \E values \in BrandCounters :
           req = Request("_calculate_market_concentration", NoBrands, None,
                         None, values, <<>>)
    /\ resp = NoResponse
    /\ calls = <<>>

\* the call self._calculate_market_concentration(brands)
CalculateConcentration ==
    /\ resp = NoResponse
    /\ resp' = [status_code |-> 0,
                detail |-> Detail(None, None, None, None),
                body |-> [success |-> TRUE,
                          market_concentration |->
                              calculate_market_concentration(req.ads_data)]]
    /\ UNCHANGED <<scrapeKey, environ, argv, GEMINI_API_KEY, cache,
                   tempFiles, temp_file, req, calls>>

SpecConcentration == InitConcentration /\ [][CalculateConcentration]_vars

\* the label of a Counter with at least one ad has been computed
ConcentrationLabelled ==
    /\ req.endpoint = "_calculate_market_concentration"
    /\ req.ads_data # <<>>
    /\ resp # NoResponse

RECURSIVE SumSquares(_, _)
SumSquares(values, i) ==
    IF i > Len(values) THEN 0
    ELSE values[i] * values[i] + SumSquares(values, i + 1)

\* the label of the specification for counts with sum of squares S and
\* total T: sum((count_i/T)^2) = S / T^2
LabelOf(S, T) ==
    IF 4 * S > T * T THEN "High concentration (few dominant players)"
    ELSE IF 20 * S > 3 * T * T THEN "Medium concentration"
    ELSE "Low concentration (fragmented market)"

OnThreshold(S, T) == 4 * S = T * T \/ 20 * S = 3 * T * T

\* what holds of the code: the label is the specified one whenever the sum
\* is not exactly 0.25 or 0.15
C20_LabelAwayFromThresholds ==
    (/\ ConcentrationLabelled
     /\ ~OnThreshold(SumSquares(req.ads_data, 1), SumValues(req.ads_data, 1)))
        => resp.body.market_concentration =
               LabelOf(SumSquares(req.ads_data, 1), SumValues(req.ads_data, 1))

\* ten brands with one ad each: the fragmented label
C20_TenBrands ==
    /\ ConcentrationLabelled
    /\ req.ads_data = [i \in 1..10 |-> 1]
    /\ resp.body.market_concentration = "Low concentration (fragmented market)"

\* two brands with five ads each and ten brands with one ad each: the sum
\* is 60/400 = 0.15, and the label is Medium
C20_ExactlyFifteen100ths ==
    /\ ConcentrationLabelled
    /\ req.ads_data = <<5, 5>> \o [i \in 1..10 |-> 1]
    /\ resp.body.market_concentration = "Medium concentration"

(***************************************************************************)
(* Script/Description Generation Engine called on its own                  *)
(* (video_generator_service.py)                                            *)
(***************************************************************************)
create_technical_specificationsBaseOnly(generator_type) ==
    [resolution |-> "1080p", aspect_ratio |-> "16:9", fps |-> 30,
     duration |-> "30s", format |-> "mp4", quality |-> "high",
     model |-> None, style |-> None, motion |-> None, lighting |-> None]

\* video_generator_service.py:1206-1286; the combined insights never carry
\* the keys common_duration, common_aspect_ratio and common_style
\* (951-1003).  None: the key is absent
create_technical_specifications(generator_type) ==
    LET block ==
            CASE LowerName(generator_type) = "veo" ->
                     <<"veo-2", "cinematic", "smooth", "natural">>
              [] LowerName(generator_type) = "runway" ->
                     <<"gen-3", "realistic", "dynamic", "dramatic">>
              [] LowerName(generator_type) = "pika" ->
                     <<"pika-1.0", "artistic", "fluid", "creative">>
              [] LowerName(generator_type) = "stable_video" ->
                     <<"svd", "stable", "controlled", "balanced">>
              [] LowerName(generator_type) = "sora" ->
                     <<"sora-1.0", "photorealistic", "natural", "realistic">>
              [] OTHER -> <<None, None, None, None>>
    IN [resolution |-> "1080p", aspect_ratio |-> "16:9", fps |-> 30,
        duration |-> "30s", format |-> "mp4", quality |-> "high",
        model |-> block[1], style |-> block[2], motion |-> block[3],
        lighting |-> block[4]]

\* video_generator_service.py:30-90.  `internal_error`: one of the helpers
\* of lines 48-69 raised
generate_video_description_from_insights(user_query, video_insights, generator_type, internal_error) ==
    IF user_query = "" \/ video_insights = <<>>
    THEN [success |-> FALSE,
          message |-> "User query and video insights are required",
          error |-> "Missing required parameters", generator_type |-> None,
          has_variations |-> FALSE, variations |-> <<>>,
          technical_specifications |-> None]
    ELSE IF internal_error
    THEN [success |-> FALSE,
          message |-> "Failed to generate video description",
          error |-> "exception", generator_type |-> None,
          has_variations |-> FALSE, variations |-> <<>>,
          technical_specifications |-> None]
    ELSE LET used == IF LowerName(generator_type) \in supported_generators
                     THEN generator_type ELSE "veo"
         IN [success |-> TRUE,
             message |-> "Successfully generated video description",
             error |-> None,
             generator_type |-> LowerName(used),
             has_variations |-> TRUE, variations |-> Variations,
             technical_specifications |-> create_technical_specifications(used)]

\* generator types a caller can pass
GeneratorChoices == {"veo", "VEO", "runway", "Sora", "unknown_gen", ""}

\* the arguments of one call of the engine.  ads_data holds, for
\* generate_video_description, the ads whose trend analysis is the
\* trends_data (none: an empty trends_data), and for
\* generate_video_description_from_insights the video insights
InitGenerator ==
    /\ scrapeKey = TRUE
    /\ environ = "env-key"
    /\ argv = <<>>
    /\ GEMINI_API_KEY = None
    /\ cache = [u \in CacheKeys |-> NoEntry]
    /\ tempFiles = {}
    /\ temp_file = 0
    /\ \E user_query \in UserQueries, generator_type \in GeneratorChoices :
          \/ \E ads_data \in AdsData :
                 req = Request("generate_video_description", NoBrands,
                               user_query, generator_type, ads_data, <<>>)
          \/ \E n \in 0..2 :
                 req = Request("generate_video_description_from_insights",
                               NoBrands, user_query, generator_type,
                               [i \in 1..n |->
                                    Insight(i, "BrandA", <<"cdn/", ".mp4">>,
                                            "analysis text", "gemini-1.5-pro")],
                               <<>>)
    /\ resp = NoResponse
    /\ calls = <<>>

\* trends_data of a call of generate_video_description
TrendsOf(ads_data) ==
    IF ads_data = <<>> THEN [present |-> FALSE]
    ELSE TrendsData(analyze_trends_from_ads(ads_data, "comprehensive", FALSE))

\* the call video_generator_service.generate_video_description(...)
GenerateFromTrends ==
    /\ req.endpoint = "generate_video_description"
    /\ resp = NoResponse
    /\ \E internal_error \in BOOLEAN :
           resp' = [status_code |-> 0,
                    detail |-> Detail(None, None, None, None),
                    body |-> generate_video_description(
                                 req.user_query, TrendsOf(req.ads_data),
                                 req.generator_type, internal_error)]
    /\ UNCHANGED <<scrapeKey, environ, argv, GEMINI_API_KEY, cache,
                   tempFiles, temp_file, req, calls>>

\* the call
\* video_generator_service.generate_video_description_from_insights(...)
GenerateFromInsights ==
    /\ req.endpoint = "generate_video_description_from_insights"
    /\ resp = NoResponse
    /\ \E internal_error \in BOOLEAN :
           resp' = [status_code |-> 0,
                    detail |-> Detail(None, None, None, None),
                    body |-> generate_video_description_from_insights(
                                 req.user_query, req.ads_data,
                                 req.generator_type, internal_error)]
    /\ UNCHANGED <<scrapeKey, environ, argv, GEMINI_API_KEY, cache,
                   tempFiles, temp_file, req, calls>>

NextGenerator == GenerateFromTrends \/ GenerateFromInsights

SpecGenerator == InitGenerator /\ [][NextGenerator]_vars

\* a call of generate_video_description has returned
TrendsGenerated ==
    req.endpoint = "generate_video_description" /\ resp # NoResponse

\* a call of generate_video_description_from_insights has returned
InsightsGenerated ==
    /\ req.endpoint = "generate_video_description_from_insights"
    /\ resp # NoResponse

EngineReturned == TrendsGenerated \/ InsightsGenerated

\* C22: every result returned by the Script/Description Generation Engine
\* (generate_video_description and generate_video_description_from_insights)
\* has a `variations` list of exactly 3 entries, for every input, including
\* an empty or missing query, trends data or insights.
C22_AlwaysThreeVariations ==
    EngineReturned =>
        resp.body.has_variations /\ Len(resp.body.variations) = 3

\* what holds of the code: a successful result has exactly 3 variations, and
\* a result is a failure without a `variations` key exactly when the query,
\* the trends data or the insight list was empty or a helper raised
C22_ThreeVariationsOnSuccess ==
    EngineReturned =>
        /\ resp.body.success =>
              resp.body.has_variations /\ Len(resp.body.variations) = 3
        /\ ~resp.body.success => ~resp.body.has_variations
        /\ (req.user_query = "" \/ req.ads_data = <<>>) => ~resp.body.success

\* a successful generation from insights, with its three variations
C22_Witness ==
    /\ InsightsGenerated
    /\ resp.body.success
    /\ resp.body.variations = <<"emotional", "technical", "competitive">>

\* the specifications table without a generator block
BaseTable ==
    [resolution |-> "1080p", aspect_ratio |-> "16:9", fps |-> 30,
     duration |-> "30s", format |-> "mp4", quality |-> "high",
     model |-> None, style |-> None, motion |-> None, lighting |-> None]

\* the base table overlaid with the block of a recognized generator
TableOf(generator) ==
    [BaseTable EXCEPT
        !.model = CASE generator = "veo" -> "veo-2"
                    [] generator = "runway" -> "gen-3"
                    [] generator = "pika" -> "pika-1.0"
                    [] generator = "stable_video" -> "svd"
                    [] generator = "sora" -> "sora-1.0",
        !.style = CASE generator = "veo" -> "cinematic"
                    [] generator = "runway" -> "realistic"
                    [] generator = "pika" -> "artistic"
                    [] generator = "stable_video" -> "stable"
                    [] generator = "sora" -> "photorealistic",
        !.motion = CASE generator = "veo" -> "smooth"
                     [] generator = "runway" -> "dynamic"
                     [] generator = "pika" -> "fluid"
                     [] generator = "stable_video" -> "controlled"
                     [] generator = "sora" -> "natural",
        !.lighting = CASE generator = "veo" -> "natural"
                       [] generator = "runway" -> "dramatic"
                       [] generator = "pika" -> "creative"
                       [] generator = "stable_video" -> "balanced"
                       [] generator = "sora" -> "realistic"]

\* C25: generate_video_description_from_insights with a generator type
\* outside the five supported ones returns technical_specifications equal
\* to the base table only, with no model/style/motion/lighting entries; for
\* each recognized generator it returns the base table overlaid with that
\* generator's block.
C25_UnrecognizedKeepsBaseTable ==
    (InsightsGenerated /\ resp.body.success) =>
        resp.body.technical_specifications =
            IF LowerName(req.generator_type) \in supported_generators
            THEN TableOf(LowerName(req.generator_type))
            ELSE BaseTable

\* amended: an unrecognized generator type is replaced by `veo` before the
\* table is built, so it gets the base table overlaid with the veo block
C25_UnrecognizedGetsVeoBlock ==
    (InsightsGenerated /\ resp.body.success) =>
        resp.body.technical_specifications =
            IF LowerName(req.generator_type) \in supported_generators
            THEN TableOf(LowerName(req.generator_type))
            ELSE TableOf("veo")

C25_Witness ==
    /\ InsightsGenerated
    /\ resp.body.success
    /\ req.generator_type = "unknown_gen"
    /\ resp.body.technical_specifications.model = "veo-2"
    /\ resp.body.technical_specifications.lighting = "natural"

(***************************************************************************)
(* Competitor-Insight Script Compiler                                      *)
(* api_server.py: generate_video_prompt_from_insights                      *)
(***************************************************************************)

\* most insights handed to one compilation
MaxInsights == 2

\* a raw_analysis that is not a string: analysis.lower() raises on it
NonText == << "<int 42>" >>

\* Competitor analyses: a text is the sequence of its lines; <<>> is ''.
CompetitorAnalyses ==
    { <<>>,
      <<"Plain product demo">>,
      <<"Uses a Split-Screen layout">>,
      <<"split screen and close up shots">>,
      <<"Close-up of the product", "Before and After results">>,
      <<"before/after">>,
      <<"The opening shot starts with the product on a table">>,
      <<"Opening">>,
      NonText }

\* needle in line.lower(), for the lines of CompetitorAnalyses
Mentions(line) ==
    CASE line = "Uses a Split-Screen layout" -> {"split-screen"}
      [] line = "split screen and close up shots" ->
             {"split screen", "close up"}
      [] line = "Close-up of the product" -> {"close-up"}
      [] line = "Before and After results" -> {"before and after"}
      [] line = "before/after" -> {"before/after"}
      [] line = "The opening shot starts with the product on a table" ->
             {"opening", "start"}
      [] line = "Opening" -> {"opening"}
      [] OTHER -> {}

\* len(line.strip()) > 30
LongLine(line) ==
    line = "The opening shot starts with the product on a table"

UpperName(name) ==
    CASE name = "veo" -> "VEO" [] name = "Sora" -> "SORA" [] OTHER -> name

\* webpage_analysis: None, a failed analysis, or a successful one with the
\* page title and the first paragraph of each section of the analysis text
\* ("" when the section header is missing).
Webpage(success, title, overview, audience, identity, cta) ==
    [present |-> TRUE, success |-> success, title |-> title,
     overview |-> overview, audience |-> audience, identity |-> identity,
     cta |-> cta]

\* webpage_analysis = None
NoWebpage ==
    [present |-> FALSE, success |-> FALSE, title |-> "", overview |-> "",
     audience |-> "", identity |-> "", cta |-> ""]

WebpageAnalyses ==
    { NoWebpage,
      Webpage(FALSE, "Acme", "An app", "Runners", "Playful", "Sign up"),
      Webpage(TRUE, "", "", "", "", ""),
      Webpage(TRUE, "Acme", "", "", "", ""),
      Webpage(TRUE, "", "", "Runners", "", "Sign up"),
      Webpage(TRUE, "Acme", "An app", "Runners", "Playful", "Sign up") }

\* x in list
InList(x, list) == \E i \in 1..Len(list) : list[i] = x

\* the techniques the competitor analyses mention, one entry per analysis
\* and technique, in the order of the analyses
visual_techniques(insights) ==
    LET Found(raw_analysis, needles) ==
            \E k \in 1..Len(raw_analysis) :
                Mentions(raw_analysis[k]) \cap needles # {}
    IN  Flatten([i \in 1..Len(insights) |->
            (IF Found(insights[i].raw_analysis,
                      {"split screen", "split-screen"})
             THEN <<"split-screen composition">> ELSE <<>>)
            \o (IF Found(insights[i].raw_analysis, {"close-up", "close up"})
                THEN <<"close-up product shots">> ELSE <<>>)
            \o (IF Found(insights[i].raw_analysis,
                         {"before/after", "before and after"})
                THEN <<"before/after comparison">> ELSE <<>>)])

\* the orders in which set(visual_techniques[:3]) can be iterated
TechniqueBullets(insights) ==
    LET techniques == visual_techniques(insights)
        first3 == {techniques[k] : k \in 1..Min(3, Len(techniques))}
    IN  {b \in [1..Cardinality(first3) -> first3] : Range(b) = first3}

\* a scene header that announces scene 5 where scene 4 belongs
SceneHeaderFourthAsFifth(n) ==
    CASE n = 1 -> "SCENE 1: OPENING (0-3 seconds)"
      [] n = 2 -> "SCENE 2: PROBLEM/HOOK (3-5 seconds)"
      [] n = 3 -> "SCENE 3: SOLUTION/PRODUCT SHOWCASE (5-15 seconds)"
      [] n = 4 -> "SCENE 5: CALL-TO-ACTION (20-25 seconds)"
      [] n = 5 -> "SCENE 4: BENEFITS & SOCIAL PROOF (15-20 seconds)"

\* the header line of scene n, with its literal time range
SceneHeader(n) ==
    CASE n = 1 -> "SCENE 1: OPENING (0-3 seconds)"
      [] n = 2 -> "SCENE 2: PROBLEM/HOOK (3-5 seconds)"
      [] n = 3 -> "SCENE 3: SOLUTION/PRODUCT SHOWCASE (5-15 seconds)"
      [] n = 4 -> "SCENE 4: BENEFITS & SOCIAL PROOF (15-20 seconds)"
      [] n = 5 -> "SCENE 5: CALL-TO-ACTION (20-25 seconds)"

\* The script as the sequence of its lines, each line a tuple of its parts.
\* bullets is the order in which set(visual_techniques[:3]) is iterated.
generate_video_prompt_from_insights(insights, user_query, generator_type, webpage_analysis, bullets) ==
    LET fallback ==
            << <<"Video prompt for", UpperName(generator_type), user_query,
                 "Based on analysis of", Len(insights)>> >>
        briefed == webpage_analysis.present /\ webpage_analysis.success
        product_name ==
            IF briefed /\ webpage_analysis.title # ""
            THEN webpage_analysis.title ELSE "your product"
        product_description ==
            IF briefed THEN webpage_analysis.overview ELSE ""
        target_audience_info ==
            IF briefed THEN webpage_analysis.audience ELSE ""
        brand_tone == IF briefed THEN webpage_analysis.identity ELSE ""
        cta_info == IF briefed THEN webpage_analysis.cta ELSE ""
        Analysed(insight) == insight.raw_analysis # <<>>
        all_competitor_insights == SelectSeq(insights, Analysed)
        named == product_name # "your product"
    IN  IF \E i \in 1..Len(all_competitor_insights) :
               all_competitor_insights[i].raw_analysis = NonText
        THEN fallback
        ELSE
        LET Opens(line) ==
                /\ Mentions(line) \cap {"opening", "start"} # {}
                /\ LongLine(line)
            OpeningLines(comp) == SelectSeq(comp.raw_analysis, Opens)
            opening_shots ==
                Flatten([i \in 1..Len(all_competitor_insights) |->
                             OpeningLines(all_competitor_insights[i])])
        IN  << <<"CREATE A", UpperName(generator_type), "VIDEO SCRIPT">>,
               <<"WHAT WE'RE ADVERTISING:">> >>
            \o (IF briefed
                THEN << <<"Product/Service:", product_name>> >>
                     \o (IF product_description # ""
                         THEN << <<product_description>> >> ELSE <<>>)
                     \o (IF target_audience_info # ""
                         THEN << <<"Target Audience:",
                                   target_audience_info>> >> ELSE <<>>)
                     \o (IF brand_tone # ""
                         THEN << <<"Brand Identity:", brand_tone>> >>
                         ELSE <<>>)
                ELSE << <<"Product/Service:", user_query>> >>)
            \o << <<"STEP-BY-STEP VIDEO SCRIPT:">>,
                  <<SceneHeader(1)>>,
                  <<"Visual: Show",
                    IF named THEN product_name ELSE "the product",
                    "prominently",
                    IF opening_shots # <<>> THEN "using technique:"
                    ELSE "with clean, professional composition",
                    IF opening_shots # <<>> THEN opening_shots[1]
                    ELSE "">>,
                  IF InList("split-screen", visual_techniques(insights))
                  THEN <<"Composition: Split-screen - product on one side, benefit/result on other">>
                  ELSE <<"Composition: Center-framed, immediate visual impact">>,
                  <<SceneHeader(2)>>,
                  IF target_audience_info # ""
                  THEN <<"Visual: Show scenario that resonates with target audience:",
                         target_audience_info>>
                  ELSE <<"Visual: Show relatable problem scenario">>,
                  <<"Text Overlay: Problem statement or attention-grabbing question">>,
                  <<SceneHeader(3)>> >>
            \o (IF product_description # ""
                THEN << <<"Visual: Demonstrate", product_name, "in action">>,
                        <<"Show:", product_description>> >>
                ELSE << <<"Visual: Demonstrate product solving the problem">> >>)
            \o (IF InList("close-up", visual_techniques(insights))
                THEN << <<"Include: Close-up shots of key features and UI/interface">> >>
                ELSE <<>>)
            \o (IF InList("before/after", visual_techniques(insights))
                THEN << <<"Show: Before/after comparison demonstrating transformation">> >>
                ELSE <<>>)
            \o << <<"Pacing: Quick cuts every 2-3 seconds to maintain attention">>,
                  <<SceneHeader(4)>>,
                  <<"Visual: Show", product_name, "delivering results">>,
                  <<"Text Overlays: Key benefits, statistics, or user testimonials">> >>
            \o (IF brand_tone # "" THEN << <<"Tone:", brand_tone>> >>
                ELSE <<>>)
            \o << <<SceneHeader(5)>>,
                  IF cta_info # "" THEN <<"Action:", cta_info>>
                  ELSE <<"Action: Clear call-to-action">>,
                  <<"Visual: Product logo/branding with CTA button overlay">>,
                  <<"Urgency: Add time-limited offer or special incentive if applicable">>,
                  <<"TECHNICAL SPECIFICATIONS:">>,
                  <<"Based on competitor analysis:">> >>
            \o Flatten([i \in 1..Min(3, Len(all_competitor_insights)) |->
                   << <<"Competitor", all_competitor_insights[i].page_name>>,
                      <<"Applied techniques:",
                        all_competitor_insights[i].raw_analysis>> >>])
            \o << <<"FINAL VIDEO CONCEPT:">>,
                  IF named
                  THEN <<"Create a", UpperName(generator_type),
                         "video advertising", product_name, "that:">>
                  ELSE <<"Create a", UpperName(generator_type),
                         "video that:">>,
                  <<"1. Opens with immediate visual impact showing",
                    IF named THEN product_name ELSE "the product">>,
                  <<"2. Demonstrates the product solving a real problem">>,
                  <<"3. Uses proven techniques from successful competitor videos:">> >>
            \o [k \in 1..Len(bullets) |-> <<"-", bullets[k]>>]
            \o << <<"4. Ends with a strong, clear call-to-action">>,
                  <<"5. Duration: 20-30 seconds, fast-paced (2-3 second scene changes)">> >>
            \o (IF briefed
                THEN << <<"This script is specifically tailored for YOUR product:",
                          product_name>> >>
                     \o << <<"Incorporates proven strategies from",
                             Len(all_competitor_insights),
                             "competitor videos">> >>
                ELSE <<>>)

\* The calls generate_video_prompt_from_insights(all_insights, user_query,
\* generator_type, webpage_analysis) of analyze_all_videos.
InitCompiler ==
    /\ scrapeKey = TRUE
    /\ environ = "env-key"
    /\ argv = <<>>
    /\ GEMINI_API_KEY = None
    /\ cache = [u \in CacheKeys |-> NoEntry]
    /\ tempFiles = {}
    /\ temp_file = 0
    /\ \E n \in 1..MaxInsights, generator_type \in {"veo", "Sora"} :
         \E analyses \in [1..n -> CompetitorAnalyses] :
           req = Request("generate_video_prompt_from_insights", NoBrands,
                         "promo video", generator_type,
                         [i \in 1..n |->
                              Insight(i, "BrandA", <<"cdn/", ".mp4">>,
                                      analyses[i], "gemini-1.5-pro")],
                         <<>>)
    /\ resp = NoResponse
    /\ calls = <<>>

CompilePrompt ==
    /\ req.endpoint = "generate_video_prompt_from_insights"
    /\ resp = NoResponse
    /\ \E webpage_analysis \in WebpageAnalyses,
          bullets \in TechniqueBullets(req.ads_data) :
           /\ resp' = [status_code |-> 0,
                       detail |-> Detail(None, None, None, None),
                       body |-> [webpage_analysis |-> webpage_analysis,
                                 video_prompt |->
                                     generate_video_prompt_from_insights(
                                         req.ads_data, req.user_query,
                                         req.generator_type,
                                         webpage_analysis, bullets)]]
    /\ UNCHANGED <<scrapeKey, environ, argv, GEMINI_API_KEY, cache,
                   tempFiles, temp_file, req, calls>>

SpecCompiler == InitCompiler /\ [][CompilePrompt]_vars

Compiled ==
    /\ req.endpoint = "generate_video_prompt_from_insights"
    /\ resp # NoResponse

\* the one-line fallback script
IsFallback(script) ==
    /\ Len(script) = 1
    /\ script[1][1] = "Video prompt for"

\* an analysis whose lower-cased text holds one of the needles
AnalysesMention(needles) ==
    \E i \in 1..Len(req.ads_data) :
        \E k \in 1..Len(req.ads_data[i].raw_analysis) :
            Mentions(req.ads_data[i].raw_analysis[k]) \cap needles # {}

HasLine(script, text) == \E k \in 1..Len(script) : script[k] = <<text>>

\* C23: for every non-empty insight list, with or without a webpage brief,
\* the compiled script holds the five scene headers with their literal time
\* ranges, in the order scene 1 (0-3 seconds), scene 2 (3-5 seconds),
\* scene 3 (5-15 seconds), scene 4 (15-20 seconds), scene 5 (20-25
\* seconds); only an internal error (here a raw_analysis that is not text)
\* replaces the script by the one-line fallback.
C23_FiveSceneHeadersInOrder ==
    Compiled =>
        LET script == resp.body.video_prompt
            failed == \E i \in 1..Len(req.ads_data) :
                          req.ads_data[i].raw_analysis = NonText
        IN  /\ IsFallback(script) <=> failed
            /\ ~failed =>
                 \E p1 \in 1..Len(script) :
                   /\ script[p1] = <<"SCENE 1: OPENING (0-3 seconds)">>
                   /\ \E p2 \in (p1 + 1)..Len(script) :
                     /\ script[p2] = <<"SCENE 2: PROBLEM/HOOK (3-5 seconds)">>
                     /\ \E p3 \in (p2 + 1)..Len(script) :
                       /\ script[p3] =
                            <<"SCENE 3: SOLUTION/PRODUCT SHOWCASE (5-15 seconds)">>
                       /\ \E p4 \in (p3 + 1)..Len(script) :
                         /\ script[p4] =
                              <<"SCENE 4: BENEFITS & SOCIAL PROOF (15-20 seconds)">>
                         /\ \E p5 \in (p4 + 1)..Len(script) :
                              script[p5] =
                                <<"SCENE 5: CALL-TO-ACTION (20-25 seconds)">>

\* a script with the five headers compiled from two analyses with a brief
C23_Witness ==
    /\ Compiled
    /\ Len(req.ads_data) = 2
    /\ resp.body.webpage_analysis.present
    /\ resp.body.webpage_analysis.success
    /\ ~IsFallback(resp.body.video_prompt)
    /\ HasLine(resp.body.video_prompt, SceneHeader(5))

\* the one-line fallback after an internal error
C23_FallbackWitness ==
    /\ Compiled
    /\ IsFallback(resp.body.video_prompt)

\* C26: the visual-technique flags shape the script: when a competitor
\* analysis mentions split-screen, scene 1 has the split-screen composition
\* line instead of the center-framed one; when one mentions close-up,
\* scene 3 has the close-up line; when one mentions before/after, scene 3
\* has the before/after line; when none is mentioned none of these lines
\* appears.
C26_TechniqueFlagsShapeScenes ==
    (Compiled /\ ~IsFallback(resp.body.video_prompt)) =>
        LET script == resp.body.video_prompt
            split == AnalysesMention({"split screen", "split-screen"})
            close == AnalysesMention({"close-up", "close up"})
            before == AnalysesMention({"before/after", "before and after"})
        IN  /\ split <=>
                HasLine(script, "Composition: Split-screen - product on one side, benefit/result on other")
            /\ split <=>
                ~HasLine(script, "Composition: Center-framed, immediate visual impact")
            /\ close <=>
                HasLine(script, "Include: Close-up shots of key features and UI/interface")
            /\ before <=>
                HasLine(script, "Show: Before/after comparison demonstrating transformation")

\* what the code does: the three lines never appear, whatever is mentioned
C26_TechniqueLinesNeverAppear ==
    (Compiled /\ ~IsFallback(resp.body.video_prompt)) =>
        LET script == resp.body.video_prompt
        IN  /\ HasLine(script, "Composition: Center-framed, immediate visual impact")
            /\ ~HasLine(script, "Composition: Split-screen - product on one side, benefit/result on other")
            /\ ~HasLine(script, "Include: Close-up shots of key features and UI/interface")
            /\ ~HasLine(script, "Show: Before/after comparison demonstrating transformation")

\* a script compiled from an analysis that mentions split-screen
C26_SplitScreenMentioned ==
    /\ Compiled
    /\ ~IsFallback(resp.body.video_prompt)
    /\ AnalysesMention({"split screen", "split-screen"})

(***************************************************************************)
(* Brand search: the batch report                                          *)
(***************************************************************************)
BatchSearched ==
    /\ req.endpoint = "brands/search"
    /\ ~req.brand_names.isStr
    /\ calls # <<>>
    /\ calls[1].exc = ExcOk

\* the requested names (positions of the list) that resolved to an ID
ResolvedNames ==
    {i \in 1..Len(req.brand_names.names) :
        \E k \in 1..Len(calls[1].items) :
            calls[1].items[k] = PlatformOf(req.brand_names.names[i])}

\* C24: for a list of brand names, batch_info.total_requested is the number
\* of requested names, successful the number of requested brands that
\* resolved to at least one platform ID, failed the number that resolved
\* to none, successful + failed = total_requested; a brand that resolves
\* to no ID is counted as failed and never makes the request fail.
C24_BatchInfoCounts ==
    BatchSearched =>
        /\ resp.status_code = 200
        /\ resp.body.batch_info.present
        /\ resp.body.batch_info.total_requested = Len(req.brand_names.names)
        /\ resp.body.batch_info.successful = Cardinality(ResolvedNames)
        /\ resp.body.batch_info.failed =
               Len(req.brand_names.names) - Cardinality(ResolvedNames)
        /\ resp.body.batch_info.successful + resp.body.batch_info.failed
               = resp.body.batch_info.total_requested

\* the same report for lists that name every brand once
C24_BatchInfoCountsOfDistinctNames ==
    (/\ BatchSearched
     /\ Len(Dedup(req.brand_names.names)) = Len(req.brand_names.names)) =>
        /\ resp.status_code = 200
        /\ resp.body.batch_info.total_requested = Len(req.brand_names.names)
        /\ resp.body.batch_info.successful = Cardinality(ResolvedNames)
        /\ resp.body.batch_info.failed =
               Len(req.brand_names.names) - Cardinality(ResolvedNames)

\* a batch of two names of which one resolves
C24_OneOfTwoResolved ==
    /\ BatchSearched
    /\ Len(req.brand_names.names) = 2
    /\ Cardinality(ResolvedNames) = 1
    /\ resp.body.batch_info.failed = 1

\* a brand that is named twice and resolves
C24_DuplicateNameResolved ==
    /\ BatchSearched
    /\ req.brand_names.names = <<"BrandB", "BrandB">>
    /\ Cardinality(ResolvedNames) = 2
    /\ resp.body.batch_info.failed = 1

(***************************************************************************)
(* Single-video analysis: the fresh-analysis path                          *)
(***************************************************************************)
\* POST /api/v1/video/analyze answered with a fresh analysis
FreshlyAnalyzed ==
    /\ req.endpoint = "video/analyze"
    /\ resp.status_code = 200
    /\ resp.body.cache_status # "Used cached analysis"

ModelCalls == {i \in 1..Len(calls) : calls[i].op = "model.generate_content"}

\* C27: on the fresh-analysis path of POST /api/v1/video/analyze the
\* generative model is called once, after the upload; the raw_analysis that
\* is returned and stored in the cache is the text of that call, and a
\* failed (empty) model response stores nothing.
C27_FreshAnalysisIsModelText ==
    /\ FreshlyAnalyzed =>
           /\ Cardinality(ModelCalls) = 1
           /\ \A i \in ModelCalls :
                  /\ \E k \in 1..(i - 1) :
                         calls[k] = Call("upload_video_to_gemini", ExcOk)
                  /\ ~Failed(calls[i])
           /\ resp.body.analysis.raw_analysis # CoroutineObject
           /\ cache[RequestedUrl(req)].analysis = resp.body.analysis
    /\ (req.endpoint = "video/analyze"
        /\ \E i \in ModelCalls : Failed(calls[i])) =>
           /\ resp.status_code # 200
           /\ ~cache[RequestedUrl(req)].analysis.present

\* what the code does: no model is called, and the stored raw_analysis is
\* the coroutine object of the call that was not awaited
C27_FreshAnalysisIsCoroutine ==
    FreshlyAnalyzed =>
        /\ ModelCalls = {}
        /\ resp.body.analysis.raw_analysis = CoroutineObject
        /\ cache[RequestedUrl(req)].analysis = resp.body.analysis

\* a fresh analysis after download and upload
C27_FreshAnalysisReturned ==
    /\ FreshlyAnalyzed
    /\ \E k \in 1..Len(calls) :
           calls[k] = Call("upload_video_to_gemini", ExcOk)
    /\ cache[RequestedUrl(req)].analysis.present

(***************************************************************************)
(* POST /api/v1/video/generate: the order of the stages                    *)
(***************************************************************************)
\* the operation of stage n of the workflow of the last request
StageOp(n) ==
    CASE n = 1 -> ResolveOp(req.brand_names)
      [] n = 2 -> "get_ads_batch"
      [] n = 3 -> "analyze_trends_from_ads"
      [] n = 4 -> "generate_video_description"

\* stage n returned, and returned something: platform IDs, ads, a
\* successful envelope
StageSucceeded(n) ==
    /\ n <= Len(calls)
    /\ ~Failed(calls[n])
    /\ (n <= 2 => calls[n].items # <<>>)

\* C28: in POST /api/v1/video/generate the stages run in the order resolve
\* brands, fetch ads, trend analysis, script generation; a stage is started
\* only if every earlier stage succeeded with a non-empty result; the
\* request stops at the first failing stage; the response is 200 only
\* after all four stages succeeded.
C28_StagesInOrder ==
    (req.endpoint = "video/generate") =>
        /\ Len(calls) <= 4
        /\ \A n \in 1..Len(calls) :
               /\ calls[n].op = StageOp(n)
               /\ \A m \in 1..(n - 1) : StageSucceeded(m)
        /\ resp.status_code = 200 <=> \A n \in 1..4 : StageSucceeded(n)

\* the workflow stopped at a failing trend analysis
C28_StoppedAtTrendAnalysis ==
    /\ req.endpoint = "video/generate"
    /\ Len(calls) = 3
    /\ StageSucceeded(1)
    /\ StageSucceeded(2)
    /\ Failed(calls[3])
    /\ resp.status_code = 400

(***************************************************************************)
(* Single-video analysis: reuse of the cache by later requests             *)
(***************************************************************************)
\* the step is a POST /api/v1/video/analyze for a URL the cache can hold
AnalyzeRequested ==
    /\ req'.endpoint = "video/analyze"
    /\ RequestedUrl(req') \in CacheKeys

\* the last request was for the URL of this step, downloaded the video and
\* failed
DownloadedAndFailed ==
    /\ req.endpoint = "video/analyze"
    /\ RequestedUrl(req) = RequestedUrl(req')
    /\ calls # <<>>
    /\ calls[1] = Call("requests.get", ExcOk)
    /\ resp.status_code # 200

\* the key of the generative model can be resolved by the step
KeyConfigured ==
    /\ Truthy(environ)
    /\ get_gemini_api_key(GEMINI_API_KEY, argv, environ).exc = ExcOk

NoDownloadInStep ==
    \A i \in 1..Len(calls') : calls'[i].op # "requests.get"

\* C29: once a fresh analysis of URL u is stored and no cleanup removed it,
\* every later request for u returns cached=true, "Used cached analysis"
\* and the stored analysis, without download, upload or model call; a
\* request that follows a request which downloaded u and failed before
\* storing an analysis reuses the cached video ("Used cached video")
\* without downloading again.
C29_LaterRequestsReuseCache ==
    [][AnalyzeRequested =>
          /\ cache[RequestedUrl(req')].analysis.present =>
                 /\ resp'.status_code = 200
                 /\ resp'.body.cached
                 /\ resp'.body.cache_status = "Used cached analysis"
                 /\ resp'.body.analysis = cache[RequestedUrl(req')].analysis
                 /\ calls' = <<>>
          /\ DownloadedAndFailed =>
                 /\ NoDownloadInStep
                 /\ resp'.status_code = 200
                 /\ resp'.body.cache_status = "Used cached video"]_vars

\* C29 for requests made while the key of the generative model is
\* configured: a stored analysis is returned as it is, without any call;
\* after a request that downloaded u, wrote it to the cache and failed,
\* the next request does not download, and when it succeeds it reports
\* "Used cached video".
C29_LaterRequestsReuseCacheWithKey ==
    [][(AnalyzeRequested /\ KeyConfigured) =>
          /\ cache[RequestedUrl(req')].analysis.present =>
                 /\ resp'.status_code = 200
                 /\ resp'.body.cached
                 /\ resp'.body.cache_status = "Used cached analysis"
                 /\ resp'.body.analysis = cache[RequestedUrl(req')].analysis
                 /\ calls' = <<>>
          /\ (/\ DownloadedAndFailed
              /\ Len(calls) >= 2
              /\ calls[2] = Call("media_cache.cache_media", ExcOk)) =>
                 /\ NoDownloadInStep
                 /\ resp'.status_code = 200 =>
                        /\ resp'.body.cached
                        /\ resp'.body.cache_status = "Used cached video"]_vars

\* a request answered from a video that an earlier request had cached
C29_UsedCachedVideo ==
    /\ req.endpoint = "video/analyze"
    /\ resp.status_code = 200
    /\ resp.body.cache_status = "Used cached video"
    /\ calls # <<>>
    /\ calls[1].op = "upload_video_to_gemini"

(***************************************************************************)
(* Overlapping POST /api/v1/video/analyze requests in one server process   *)
(*                                                                         *)
(* uvicorn runs one event loop (api_server.py:1120-1126, no workers) and   *)
(* analyze_video is an `async def` handler, so a handler keeps the loop    *)
(* from its first statement to the next await expression it executes.      *)
(* Here req[r] is request r with the position of its handler, resp[r] its  *)
(* response, and calls the log of the process, each call tagged in `items` *)
(* with the request that made it.                                          *)
(***************************************************************************)
\* requests in flight at the same time
MaxOverlap == 2

Handlers == 1..MaxOverlap

\* a suspension of the handler after its download
AwaitPointsAtDownload == {"download"}

\* the steps of analyze_video after which the handler awaits: the body
\* (api_server.py:901-1085) holds no await expression, also not at the call
\* of the coroutine function at 1037
AwaitPoints == {}

Handler(media_url, at, suspended, cached_data) ==
    [media_url |-> media_url, at |-> at, suspended |-> suspended,
     cached_data |-> cached_data]

InitOverlap ==
    /\ scrapeKey = TRUE
    /\ environ = "env-key"
    /\ argv = <<>>
    /\ GEMINI_API_KEY = None
    /\ cache = [u \in CacheKeys |-> NoEntry]
    /\ tempFiles = {}
    /\ temp_file = 0
    /\ \E urls \in [Handlers -> CacheKeys] :
           req = [r \in Handlers |-> Handler(urls[r], "pending", FALSE, FALSE)]
    /\ resp = [r \in Handlers |-> NoResponse]
    /\ calls = <<>>

\* handler q is between two of its statements and has not yielded
HoldsLoop(q) ==
    /\ req[q].at \notin {"pending", "done"}
    /\ ~req[q].suspended

\* the event loop can run the next statements of handler r
Runnable(r, at) ==
    /\ req[r].at = at
    /\ \A q \in Handlers \ {r} : ~HoldsLoop(q)

\* handler r did `step`, logged `log`, and goes on at `at`
Proceed(r, step, log, at, cached_data) ==
    /\ req' = [req EXCEPT ![r] = Handler(req[r].media_url, at,
                                         step \in AwaitPoints, cached_data)]
    /\ calls' = calls \o log
    /\ UNCHANGED <<scrapeKey, environ, argv, resp>>

\* handler r raised or returned
Respond(r, step, log, response) ==
    /\ req' = [req EXCEPT ![r] = Handler(req[r].media_url, "done", FALSE,
                                         req[r].cached_data)]
    /\ resp' = [resp EXCEPT ![r] = response]
    /\ calls' = calls \o log
    /\ UNCHANGED <<scrapeKey, environ, argv>>

Tagged(r, op, exc) == CallReturning(op, exc, <<r>>)

\* api_server.py:901-916: the checks, configure_gemini and the lookup of
\* the video
LookupVideo(r) ==
    /\ Runnable(r, "pending")
    /\ \E found \in {get_cached_media(cache, req[r].media_url)} :
           Proceed(r, "lookup",
                   <<Tagged(r, "media_cache.get_cached_media", ExcOk)>>,
                   IF found THEN "analysis" ELSE "download", found)
    /\ GEMINI_API_KEY' =
           configure_gemini(GEMINI_API_KEY, argv, environ).key
    /\ UNCHANGED <<cache, tempFiles, temp_file>>

\* api_server.py:926-935: the download into a temporary file
DownloadVideo(r) ==
    /\ Runnable(r, "download")
    /\ \E download_ok \in BOOLEAN :
           IF download_ok
           THEN /\ Proceed(r, "download",
                           <<Tagged(r, "requests.get", ExcOk)>>,
                           "cache_media", FALSE)
                /\ tempFiles' = tempFiles \cup {NewTemp(tempFiles)}
                /\ temp_file' = NewTemp(tempFiles)
           ELSE /\ Respond(r, "download",
                           <<Tagged(r, "requests.get",
                                    Exception("download failed"))>>,
                           Http500("Video analysis failed"))
                /\ UNCHANGED <<tempFiles, temp_file>>
    /\ UNCHANGED <<GEMINI_API_KEY, cache>>

\* api_server.py:937-943
CacheVideo(r) ==
    /\ Runnable(r, "cache_media")
    /\ \E cache_ok \in BOOLEAN :
           IF cache_ok
           THEN /\ Proceed(r, "cache_media",
                           <<Tagged(r, "media_cache.cache_media", ExcOk)>>,
                           "analysis", FALSE)
                /\ cache' = cache_media(cache, req[r].media_url)
           ELSE /\ Respond(r, "cache_media",
                           <<Tagged(r, "media_cache.cache_media",
                                    Exception("cache write failed"))>>,
                           Http500("Video analysis failed"))
                /\ UNCHANGED cache
    /\ UNCHANGED <<GEMINI_API_KEY, tempFiles, temp_file>>

\* api_server.py:947-960: the lookup of a stored analysis
LookupAnalysis(r) ==
    /\ Runnable(r, "analysis")
    /\ \E cached_analysis \in {get_analysis_results(cache, req[r].media_url)} :
           IF cached_analysis.present
           THEN Respond(r, "analysis",
                        <<Tagged(r, "media_cache.get_analysis_results",
                                 ExcOk)>>,
                        OkResponse(CachedAnalysisBody(cached_analysis)))
           ELSE Proceed(r, "analysis",
                        <<Tagged(r, "media_cache.get_analysis_results",
                                 ExcOk)>>,
                        "upload", req[r].cached_data)
    /\ UNCHANGED <<GEMINI_API_KEY, cache, tempFiles, temp_file>>

\* api_server.py:1030-1079: the upload, the analysis record, its storage
\* and the deletion of the remote file
UploadAndStore(r) ==
    /\ Runnable(r, "upload")
    /\ \E upload \in UploadOutcomes, update_ok \in BOOLEAN,
          delete_ok \in BOOLEAN :
       \E done \in {UploadAndAnalyze(cache, req[r].media_url,
                                     req[r].cached_data, upload, update_ok,
                                     delete_ok)} :
           /\ Respond(r, "upload",
                      [i \in 1..Len(done.calls) |->
                           Tagged(r, done.calls[i].op, done.calls[i].exc)],
                      done.resp)
           /\ cache' = done.cache
    /\ UNCHANGED <<GEMINI_API_KEY, tempFiles, temp_file>>

NextOverlap ==
    \/ \E r \in Handlers : LookupVideo(r)
    \/ \E r \in Handlers : DownloadVideo(r)
    \/ \E r \in Handlers : CacheVideo(r)
    \/ \E r \in Handlers : LookupAnalysis(r)
    \/ \E r \in Handlers : UploadAndStore(r)

SpecOverlap == InitOverlap /\ [][NextOverlap]_vars

\* the request that made the i-th call of the log
CallerOf(i) == calls[i].items[1]

\* the requests that downloaded url and wrote it to the cache
Writers(url) ==
    {r \in Handlers :
        /\ req[r].media_url = url
        /\ \E i \in 1..Len(calls) :
               /\ CallerOf(i) = r
               /\ calls[i].op = "media_cache.cache_media"
               /\ ~Failed(calls[i])}

\* C30: within one server process the cache operations of overlapping
\* POST /api/v1/video/analyze requests are serialized: the lookup,
\* download, cache_media and update_analysis_results calls of one request
\* are never interleaved with those of another, so a URL is downloaded and
\* written to the cache by at most one of the requests for it.
C30_CacheWritesSerialized ==
    /\ \A i \in 1..Len(calls), k \in 1..Len(calls) :
           (i < k /\ CallerOf(i) = CallerOf(k)) =>
               \A j \in i..k : CallerOf(j) = CallerOf(i)
    /\ \A url \in CacheKeys : Cardinality(Writers(url)) <= 1

\* two requests for the same uncached URL, both answered: the first wrote
\* the video and stored an analysis, the second was served from the cache
C30_SecondServedFromCache ==
    /\ req[1].media_url = req[2].media_url
    /\ req[1].at = "done"
    /\ req[2].at = "done"
    /\ Cardinality(Writers(req[1].media_url)) = 1
    /\ resp[1].status_code = 200
    /\ resp[2].status_code = 200
    /\ \E r \in Handlers : resp[r].body.cache_status = "Used cached analysis"

====
